---- MODULE Spec2Model ----
(***************************************************************************)
(* Model of the scoring and aggregation engine of stock_predictor.py:     *)
(* the composite predictor (generate_prediction), the three scorers, the  *)
(* batch screener (run_screener) and the screener branch of main().       *)
(*                                                                         *)
(* Python floats are modelled as exact rationals extended with NaN (and   *)
(* None for an absent value): a value is a record [k, n, d] with k one of *)
(* "num" (the rational n/d in lowest terms, d > 0), "nan" and "none".     *)
(* Comparisons with NaN are false and arithmetic on NaN gives NaN, as in  *)
(* IEEE 754; binary rounding error is not modelled.                       *)
(***************************************************************************)
EXTENDS Integers, Sequences, FiniteSets, TLC

VARIABLES
    p_pc,        \* generate_prediction harness: "call" before, "done" after
    p_technical, \* argument technical  (a scorer result)
    p_sentiment, \* argument sentiment  (a scorer result)
    p_fundamental,\* argument fundamental (a scorer result)
    p_result,    \* the dict generate_prediction returned
    p_left,      \* the components and weights dicts the latest call built
    p_again,     \* the dict a second call with the same arguments returned
    s_pc,        \* scorer harness: "call" before the scorer runs, "done" after
    s_op,        \* the scorer called: "technical", "sentiment" or "fundamentals"
    s_args,      \* its arguments: price_df, news_dict, quarterly_df, info, balance_sheet_df
    s_result,    \* the dict the scorer returned
    scr_pc,      \* run_screener: "call", "loop" (in the for loop), "done" (returned)
    stock_dict,  \* its argument: the (name, ticker) items in iteration order
    idx,         \* the number of items the loop has gone through
    results,     \* the list of row dicts collected so far
    scr_log,     \* per item gone through: the item and what its fetches returned
    ui_session,  \* st.session_state["screener_results"]: [set, rows]
    ui_view,     \* what the last rerun of main() showed in the main area
    ui_last,     \* the last rerun: its mode, its button, whether it started a
                 \* run, the run's rows, the session state it found and the
                 \* rows it showed
    n_pc,        \* news harness: "fetch", "analyze", "done"
    n_feeds,     \* per category what its feed does: FeedFails or its entries
    n_news,      \* the dict fetch_news_headlines returned
    n_result,    \* what analyze_sentiment returned for it
    k_pc,        \* key-metrics harness: "call" before the two runs, "done" after
    k_entry,     \* one security: what its fetch and its three scorers return
    k_info,      \* the key-metrics fields of info in run 1 and in run 2
    k_rows,      \* the rows run_screener returns in run 1 and in run 2
    m_pc,        \* metrics harness: "call" before compute_key_metrics, "done" after
    m_args,      \* its arguments: info, annual_income, annual_balance, cashflow
    m_result     \* the metrics dict it returned

predVars == <<p_pc, p_technical, p_sentiment, p_fundamental, p_result, p_left, p_again>>
scorerVars == <<s_pc, s_op, s_args, s_result>>
screenerVars == <<scr_pc, stock_dict, idx, results, scr_log>>
uiVars == <<ui_session, ui_view, ui_last>>
newsVars == <<n_pc, n_feeds, n_news, n_result>>
keyVars == <<k_pc, k_entry, k_info, k_rows>>
metricsVars == <<m_pc, m_args, m_result>>
vars == <<predVars, scorerVars, screenerVars, uiVars, newsVars, keyVars, metricsVars>>

\* what the actions of one harness leave alone
notPred == <<scorerVars, screenerVars, uiVars, newsVars, keyVars, metricsVars>>
notScorers == <<predVars, screenerVars, uiVars, newsVars, keyVars, metricsVars>>
notScreener == <<predVars, scorerVars, uiVars, newsVars, keyVars, metricsVars>>
notUi == <<predVars, scorerVars, screenerVars, newsVars, keyVars, metricsVars>>
notNews == <<predVars, scorerVars, screenerVars, uiVars, keyVars, metricsVars>>
notKey == <<predVars, scorerVars, screenerVars, uiVars, newsVars, metricsVars>>
notMetrics == <<predVars, scorerVars, screenerVars, uiVars, newsVars, keyVars>>

-----------------------------------------------------------------------------
(* Float values                                                            *)

Abs(x) == IF x < 0 THEN -x ELSE x

RECURSIVE Gcd(_, _)
Gcd(a, b) == IF b = 0 THEN a ELSE Gcd(b, a % b)

\* the float n/d (d # 0), in lowest terms with a positive denominator
Num(n, d) ==
    LET g == Gcd(Abs(n), Abs(d))
        s == IF d < 0 THEN -1 ELSE 1
    IN  [k |-> "num", n |-> (s * n) \div g, d |-> (s * d) \div g]

NaN == [k |-> "nan", n |-> 0, d |-> 1]
None == [k |-> "none", n |-> 0, d |-> 1]

IsNum(v) == v.k = "num"
IsNaN(v) == v.k = "nan"

\* a + b, a - b, a * b: NaN when an operand is NaN
FAdd(a, b) == IF IsNum(a) /\ IsNum(b) THEN Num(a.n * b.d + b.n * a.d, a.d * b.d) ELSE NaN
FSub(a, b) == IF IsNum(a) /\ IsNum(b) THEN Num(a.n * b.d - b.n * a.d, a.d * b.d) ELSE NaN
FMul(a, b) == IF IsNum(a) /\ IsNum(b) THEN Num(a.n * b.n, a.d * b.d) ELSE NaN
\* a / b for b # 0 (every division of the code is guarded by b != 0)
FDiv(a, b) == IF IsNum(a) /\ IsNum(b) THEN Num(a.n * b.d, a.d * b.n) ELSE NaN
FAbs(a) == IF IsNum(a) THEN Num(Abs(a.n), a.d) ELSE NaN

\* a < b, a <= b, a > b, a >= b, a == b: False when an operand is NaN
FLt(a, b) == IsNum(a) /\ IsNum(b) /\ a.n * b.d < b.n * a.d
FLe(a, b) == IsNum(a) /\ IsNum(b) /\ a.n * b.d <= b.n * a.d
FGt(a, b) == FLt(b, a)
FGe(a, b) == FLe(b, a)
FEq(a, b) == IsNum(a) /\ IsNum(b) /\ a.n * b.d = b.n * a.d

\* Python's min(a, b) and max(a, b): the first argument unless the second
\* compares strictly below (above) it, so a NaN first argument is returned
PyMin(a, b) == IF FLt(b, a) THEN b ELSE a
PyMax(a, b) == IF FGt(b, a) THEN b ELSE a

\* np.clip(v, lo, hi): NaN stays NaN
NpClip(v, lo, hi) == IF IsNaN(v) THEN NaN ELSE IF FLt(v, lo) THEN lo ELSE IF FGt(v, hi) THEN hi ELSE v

\* round(v, 1): to the nearest tenth, ties to the even tenth; NaN stays NaN
Round1(v) ==
    IF ~IsNum(v) THEN v
    ELSE LET t == 10 * v.n
             q == t \div v.d
             r == t - q * v.d
             up == \/ 2 * r > v.d
                   \/ (2 * r = v.d /\ q % 2 = 1)
         IN  Num(IF up THEN q + 1 ELSE q, 10)

Zero == Num(0, 1)
One == Num(1, 1)
MinusOne == Num(-1, 1)

-----------------------------------------------------------------------------
(* Section 8: Prediction Engine (generate_prediction)                      *)

\* Final prediction weights and thresholds
WEIGHT_TECHNICAL == Num(45, 100)
WEIGHT_FUNDAMENTAL == Num(30, 100)
WEIGHT_SENTIMENT == Num(25, 100)
BUY_THRESHOLD == Num(3, 10)
SELL_THRESHOLD == Num(-3, 10)

\* the keys of components / weights, in insertion order
ComponentNames == {"technical", "fundamental", "sentiment"}

NominalWeight(name) ==
    CASE name = "technical" -> WEIGHT_TECHNICAL
      [] name = "fundamental" -> WEIGHT_FUNDAMENTAL
      [] name = "sentiment" -> WEIGHT_SENTIMENT

\* sum(f[k] for k in keys)
RECURSIVE FSum(_, _)
FSum(f, keys) ==
    IF keys = {} THEN Zero
    ELSE LET k == CHOOSE x \in keys : TRUE
         IN  FAdd(f[k], FSum(f, keys \ {k}))

\* result.get("status") == "ok"
Usable_NotError(result) == result.status # "error"
Usable(result) == result.status = "ok"

\* weights[k] /= total_weight, for total_weight > 0
Redistribute_Nominal(weights) == weights
Redistribute(weights) ==
    LET total_weight == FSum(weights, DOMAIN weights)
    IN  IF FGt(total_weight, Zero)
        THEN [k \in DOMAIN weights |-> FDiv(weights[k], total_weight)]
        ELSE weights

\* final_score = clip(sum(components[k] * weights[k]), -1, 1)
FinalScore(components, weights) ==
    NpClip(FSum([k \in DOMAIN components |-> FMul(components[k], weights[k])],
                DOMAIN components),
           MinusOne, One)

\* Determine action
DetermineAction_Strict(final_score) ==
    IF FGt(final_score, BUY_THRESHOLD) THEN "BUY"
    ELSE IF FLt(final_score, SELL_THRESHOLD) THEN "SELL"
    ELSE "HOLD"
DetermineAction(final_score) ==
    IF FGe(final_score, BUY_THRESHOLD) THEN "BUY"
    ELSE IF FLe(final_score, SELL_THRESHOLD) THEN "SELL"
    ELSE "HOLD"

\* Base confidence from score magnitude (0-50 points)
MagnitudeConf(final_score) == PyMin(FMul(FAbs(final_score), Num(50, 1)), Num(50, 1))

\* Agreement bonus (0-30 points)
AgreementConf_NoSingle(components, final_score) ==
    LET direction == IF FGe(final_score, Zero) THEN 1 ELSE -1
        agreeing == Cardinality({k \in DOMAIN components :
                                    FGe(components[k], Zero) = (direction >= 0)})
    IN  Num(agreeing * 30, Cardinality(DOMAIN components))
AgreementConf(components, final_score) ==
    IF Cardinality(DOMAIN components) >= 2
    THEN LET direction == IF FGe(final_score, Zero) THEN 1 ELSE -1
             agreeing == Cardinality({k \in DOMAIN components :
                                         FGe(components[k], Zero) = (direction >= 0)})
         IN  Num(agreeing * 30, Cardinality(DOMAIN components))
    ELSE Num(10, 1)

\* Data source bonus (0-20 points)
DataConf(components) == Num(Cardinality(DOMAIN components) * 20, 3)

\* confidence = round(max(min(magnitude + agreement + data, 100), 5), 1)
Confidence_Unrounded(components, final_score) ==
    PyMax(PyMin(FAdd(FAdd(MagnitudeConf(final_score),
                          AgreementConf(components, final_score)),
                     DataConf(components)),
                Num(100, 1)),
          Num(5, 1))
Confidence(components, final_score) ==
    Round1(PyMax(PyMin(FAdd(FAdd(MagnitudeConf(final_score),
                                 AgreementConf(components, final_score)),
                            DataConf(components)),
                       Num(100, 1)),
                 Num(5, 1)))

\* components = {}; weights = {}: a call starts from new, empty dicts,
\* whatever dicts an earlier call built (left)
NoDicts == [components |-> [k \in {} |-> None], weights |-> [k \in {} |-> None]]
FreshDicts_Carried(left) == left
FreshDicts(left) == NoDicts

\* a call made after an earlier call built the dicts left; a key the returned
\* dict does not have is modelled as None / "absent"
GeneratePredictionFrom(left, technical, sentiment, fundamental) ==
    LET start == FreshDicts(left)
        arg == [technical |-> technical, fundamental |-> fundamental,
                sentiment |-> sentiment]
        usable == {k \in ComponentNames : Usable(arg[k])}
        present == DOMAIN start.components \cup usable
        components == [k \in present |->
                          IF k \in usable THEN arg[k].score ELSE start.components[k]]
        weights == Redistribute([k \in present |->
                          IF k \in usable THEN NominalWeight(k) ELSE start.weights[k]])
        final_score == FinalScore(components, weights)
    IN  IF present = {}
        THEN [status |-> "error", message |-> "No analysis data available",
              action |-> "absent", score |-> None, confidence |-> None,
              components |-> [k \in {} |-> None], weights |-> [k \in {} |-> None]]
        ELSE [status |-> "ok", message |-> "absent",
              action |-> DetermineAction(final_score),
              score |-> final_score,
              confidence |-> Confidence(components, final_score),
              components |-> components,
              weights |-> weights]

GeneratePrediction(technical, sentiment, fundamental) ==
    GeneratePredictionFrom(NoDicts, technical, sentiment, fundamental)

\* the dicts a call built: the ones its result holds
DictsOf(result) == [components |-> result.components, weights |-> result.weights]

-----------------------------------------------------------------------------
(* Scorer results handed to generate_prediction                            *)

\* component scores are multiples of 1/ScoreGrid
ScoreGrid == 10

GridScores == {Num(i, ScoreGrid) : i \in -ScoreGrid..ScoreGrid}

OkResult(score) == [status |-> "ok", score |-> score]
InsufficientData == [status |-> "insufficient_data", score |-> None]
ErrorResult == [status |-> "error", score |-> None]

\* what calculate_technical_indicators and analyze_sentiment can hand over
ScoreResults == {OkResult(s) : s \in GridScores} \cup {InsufficientData, ErrorResult}
\* analyze_fundamentals can also hand over status ok with a NaN score
FundamentalResults == ScoreResults \cup {OkResult(NaN)}

NoResult == [status |-> "none", message |-> "absent", action |-> "absent",
             score |-> None, confidence |-> None,
             components |-> [k \in {} |-> None], weights |-> [k \in {} |-> None]]

\* the dicts an earlier call may have built: none, or those of a call with
\* only a technical score, or with three scores
EarlierDicts ==
    {NoDicts,
     DictsOf(GeneratePrediction(OkResult(Num(7, 10)), InsufficientData, InsufficientData)),
     DictsOf(GeneratePrediction(OkResult(Num(7, 10)), OkResult(Num(-2, 10)), OkResult(Num(5, 10))))}

PredInit ==
    /\ p_pc = "call"
    /\ p_technical \in ScoreResults
    /\ p_sentiment \in ScoreResults
    /\ p_fundamental \in FundamentalResults
    /\ p_result = NoResult
    /\ p_left \in EarlierDicts
    /\ p_again = NoResult

PredOff ==
    /\ p_pc = "off"
    /\ p_technical = InsufficientData
    /\ p_sentiment = InsufficientData
    /\ p_fundamental = InsufficientData
    /\ p_result = NoResult
    /\ p_left = NoDicts
    /\ p_again = NoResult

\* prediction = generate_prediction(technical, sentiment, fundamental)
Predict ==
    /\ p_pc = "call"
    /\ \E prediction \in {GeneratePredictionFrom(p_left, p_technical, p_sentiment, p_fundamental)} :
          /\ p_result' = prediction
          /\ p_left' = DictsOf(prediction)
    /\ p_pc' = "done"
    /\ UNCHANGED <<p_technical, p_sentiment, p_fundamental, p_again>>
    /\ UNCHANGED notPred

\* the same call once more, with the same arguments
PredictAgain ==
    /\ p_pc = "done"
    /\ \E prediction \in {GeneratePredictionFrom(p_left, p_technical, p_sentiment, p_fundamental)} :
          /\ p_again' = prediction
          /\ p_left' = DictsOf(prediction)
    /\ p_pc' = "again"
    /\ UNCHANGED <<p_technical, p_sentiment, p_fundamental, p_result>>
    /\ UNCHANGED notPred

PredNext ==
    \/ Predict
    \/ PredictAgain

-----------------------------------------------------------------------------
(* Section 5: Technical Analysis (calculate_technical_indicators)          *)

SMA_SHORT == 20
SMA_LONG == 50
RSI_PERIOD == 14

TECH_SMA_WEIGHT == Num(40, 100)
TECH_RSI_WEIGHT == Num(35, 100)
TECH_MOMENTUM_WEIGHT == Num(25, 100)

\* A price history is [present, close]: present = FALSE is None, close the
\* closing prices in chronological order (integers).
NoHistory == [present |-> FALSE, close |-> <<>>]
History(close) == [present |-> TRUE, close |-> close]

\* close.iloc[-i]
ILocNeg(close, i) == close[Len(close) - i + 1]

\* sum of f over the last `window` positions of a series of length n
RECURSIVE SumLast(_, _, _)
SumLast(f, n, window) ==
    IF window = 0 THEN 0 ELSE f[n] + SumLast(f, n - 1, window - 1)

\* close.rolling(window).mean().iloc[-1]
RollingMeanLast(close, window) == Num(SumLast(close, Len(close), window), window)

\* SMA Crossover Signal
SmaSignal(close) ==
    LET latest_short == RollingMeanLast(close, SMA_SHORT)
        latest_long == RollingMeanLast(close, SMA_LONG)
        sma_diff_pct == FDiv(FSub(latest_short, latest_long), latest_long)
    IN  IF FEq(latest_long, Zero) THEN Zero
        ELSE NpClip(FMul(sma_diff_pct, Num(10, 1)), MinusOne, One)

\* delta = close.diff(); gain and loss are the rolling means of its positive
\* part and of its negated negative part
Delta(close) == [i \in 2..Len(close) |-> close[i] - close[i - 1]]
LatestGain(close) ==
    LET delta == Delta(close)
    IN  Num(SumLast([i \in DOMAIN delta |-> IF delta[i] > 0 THEN delta[i] ELSE 0],
                    Len(close), RSI_PERIOD), RSI_PERIOD)
LatestLoss(close) ==
    LET delta == Delta(close)
    IN  Num(SumLast([i \in DOMAIN delta |-> IF delta[i] < 0 THEN -delta[i] ELSE 0],
                    Len(close), RSI_PERIOD), RSI_PERIOD)

Rsi_FlatIsNeutral(close) ==
    LET latest_loss == LatestLoss(close)
        latest_gain == LatestGain(close)
        rs == FDiv(latest_gain, latest_loss)
    IN  IF FEq(latest_loss, Zero)
        THEN (IF FEq(latest_gain, Zero) THEN Num(50, 1) ELSE Num(100, 1))
        ELSE FSub(Num(100, 1), FDiv(Num(100, 1), FAdd(One, rs)))
Rsi(close) ==
    LET latest_loss == LatestLoss(close)
        rs == FDiv(LatestGain(close), latest_loss)
    IN  IF FEq(latest_loss, Zero) THEN Num(100, 1)
        ELSE FSub(Num(100, 1), FDiv(Num(100, 1), FAdd(One, rs)))

RsiSignal(rsi) ==
    NpClip(IF FGe(rsi, Num(70, 1)) THEN FSub(Zero, FDiv(FSub(rsi, Num(70, 1)), Num(30, 1)))
           ELSE IF FLe(rsi, Num(30, 1)) THEN FDiv(FSub(Num(30, 1), rsi), Num(30, 1))
           ELSE FDiv(FSub(rsi, Num(50, 1)), Num(40, 1)),
           MinusOne, One)

\* (close.iloc[-1] - close.iloc[-k]) / close.iloc[-k] if close.iloc[-k] != 0 else 0
Return(close, k) ==
    IF ILocNeg(close, k) # 0
    THEN Num(ILocNeg(close, 1) - ILocNeg(close, k), ILocNeg(close, k))
    ELSE Zero

\* Momentum Signal (5-day vs 20-day return)
MomentumSignal(close) ==
    IF Len(close) >= 20
    THEN NpClip(FMul(FAdd(FMul(Return(close, 5), Num(6, 10)),
                          FMul(Return(close, 20), Num(4, 10))), Num(5, 1)),
                MinusOne, One)
    ELSE Zero

\* if price_df is None or len(price_df) < SMA_LONG
InsufficientHistory_OffByOne(price_df) ==
    ~price_df.present \/ Len(price_df.close) <= SMA_LONG
InsufficientHistory(price_df) ==
    ~price_df.present \/ Len(price_df.close) < SMA_LONG

CalculateTechnicalIndicators(price_df) ==
    IF InsufficientHistory(price_df)
    THEN [status |-> "insufficient_data", score |-> None]
    ELSE LET close == price_df.close
             sma_signal == SmaSignal(close)
             rsi == Rsi(close)
             rsi_signal == RsiSignal(rsi)
             momentum_signal == MomentumSignal(close)
             composite == FAdd(FAdd(FMul(sma_signal, TECH_SMA_WEIGHT),
                                    FMul(rsi_signal, TECH_RSI_WEIGHT)),
                               FMul(momentum_signal, TECH_MOMENTUM_WEIGHT))
         IN  [status |-> "ok",
              score |-> NpClip(composite, MinusOne, One),
              sma_signal |-> sma_signal,
              rsi_signal |-> rsi_signal,
              rsi_value |-> rsi,
              momentum_signal |-> momentum_signal,
              sma_short |-> RollingMeanLast(close, SMA_SHORT),
              sma_long |-> RollingMeanLast(close, SMA_LONG),
              current_price |-> Num(ILocNeg(close, 1), 1)]

-----------------------------------------------------------------------------
(* Section 6: Sentiment Analysis (analyze_sentiment)                       *)

SENTIMENT_STOCK_WEIGHT_Equal == Num(1, 3)
SENTIMENT_STOCK_WEIGHT == Num(50, 100)
SENTIMENT_SECTOR_WEIGHT == Num(30, 100)
SENTIMENT_MARKET_WEIGHT == Num(20, 100)

Categories == <<"stock", "sector", "market">>

\* A headline is [title, compound, sentiment_score]: title is "" or "text",
\* compound is what analyzer.polarity_scores(title)["compound"] returns for it
\* and sentiment_score the key analyze_sentiment writes (None while unset).
Headline(title, compound) == [title |-> title, compound |-> compound, sentiment_score |-> None]

\* the positions of the headlines with a non-empty title
Titled_Every(headlines) == DOMAIN headlines
Titled(headlines) == {i \in DOMAIN headlines : headlines[i].title # ""}

\* scores = [vs["compound"] for the items with a title]; np.mean(scores)
CategoryScore(headlines) ==
    LET scored == Titled(headlines)
    IN  IF headlines = <<>> \/ scored = {} THEN Zero
        ELSE FDiv(FSum([i \in scored |-> headlines[i].compound], scored),
                  Num(Cardinality(scored), 1))

\* item["sentiment_score"] = vs["compound"], for the items with a title
ScoredHeadlines(headlines) ==
    [i \in DOMAIN headlines |->
        IF headlines[i].title # ""
        THEN [headlines[i] EXCEPT !.sentiment_score = headlines[i].compound]
        ELSE headlines[i]]

\* news_dict as analyze_sentiment leaves it
NewsAfterSentiment(news_dict) ==
    [category \in DOMAIN news_dict |-> ScoredHeadlines(news_dict[category])]

\* if total_headlines == 0: return {"status": "insufficient_data"}
NoHeadlines_Unchecked(total_headlines) == FALSE
NoHeadlines(total_headlines) == total_headlines = 0

AnalyzeSentiment(news_dict) ==
    LET category_scores == [category \in DOMAIN news_dict |-> CategoryScore(news_dict[category])]
        total_headlines == Cardinality(Titled(news_dict["stock"]))
                           + Cardinality(Titled(news_dict["sector"]))
                           + Cardinality(Titled(news_dict["market"]))
        composite == FAdd(FAdd(FMul(category_scores["stock"], SENTIMENT_STOCK_WEIGHT),
                               FMul(category_scores["sector"], SENTIMENT_SECTOR_WEIGHT)),
                          FMul(category_scores["market"], SENTIMENT_MARKET_WEIGHT))
    IN  IF NoHeadlines(total_headlines)
        THEN [status |-> "insufficient_data", score |-> None]
        ELSE [status |-> "ok",
              score |-> NpClip(composite, MinusOne, One),
              stock_sentiment |-> category_scores["stock"],
              sector_sentiment |-> category_scores["sector"],
              market_sentiment |-> category_scores["market"],
              headline_count |-> total_headlines,
              news_with_scores |-> NewsAfterSentiment(news_dict)]

-----------------------------------------------------------------------------
(* Section 7: Fundamental Analysis (analyze_fundamentals)                  *)

\* a value of the info dict that is text, not a number: float() of it and a
\* comparison of it with a float raise
Str == [k |-> "str", n |-> 0, d |-> 1]

FUND_REVENUE_WEIGHT == Num(20, 100)
FUND_MARGIN_WEIGHT == Num(15, 100)
FUND_PROFIT_WEIGHT == Num(20, 100)
FUND_DEBT_EQUITY_WEIGHT == Num(20, 100)
FUND_CURRENT_RATIO_WEIGHT == Num(10, 100)
FUND_ROE_WEIGHT == Num(15, 100)

\* A statement table (DataFrame) is [present, rows]: present = FALSE is None,
\* rows maps each label of the index to its period values, latest first.
NoTable == [present |-> FALSE, rows |-> [l \in {} |-> <<>>]]
Table(rows) == [present |-> TRUE, rows |-> rows]

\* df.empty: no row or no column
DfEmpty(df) == \A l \in DOMAIN df.rows : Len(df.rows[l]) = 0

\* for label in labels: if label in df.index: ... break
RECURSIVE FirstLabel(_, _)
FirstLabel(df, labels) ==
    IF labels = <<>> THEN "absent"
    ELSE IF Head(labels) \in DOMAIN df.rows THEN Head(labels)
    ELSE FirstLabel(df, Tail(labels))

RevenueLabels == <<"Total Revenue", "TotalRevenue", "Revenue">>
ProfitLabels == <<"Net Income", "NetIncome", "Net Income Common Stockholders">>
DebtLabels == <<"Total Debt", "TotalDebt", "Long Term Debt And Capital Lease Obligation">>
EquityLabels == <<"Stockholders Equity", "StockholdersEquity",
                  "Total Equity Gross Minority Interest", "Common Stock Equity">>
CurrentAssetsLabels == <<"Current Assets", "CurrentAssets", "Total Current Assets">>
CurrentLiabilitiesLabels == <<"Current Liabilities", "CurrentLiabilities",
                              "Total Current Liabilities">>

\* what one try block leaves behind: whether signals[name] was assigned, its
\* value, whether available_signals was incremented, and the raw ratio
Skipped == [assigned |-> FALSE, value |-> None, counted |-> FALSE, raw |-> None]
Signal(value, raw) == [assigned |-> TRUE, value |-> value, counted |-> TRUE, raw |-> raw]

\* `if prev and prev != 0`: false for 0 only (NaN is truthy and != 0)
NonZero(v) == ~(IsNum(v) /\ v.n = 0)

\* QoQ growth of the first row found among labels: revenue and profit growth
GrowthSignal(quarterly_df, labels) ==
    IF quarterly_df.present /\ ~DfEmpty(quarterly_df)
    THEN LET label == FirstLabel(quarterly_df, labels)
         IN  IF label # "absent" /\ Len(quarterly_df.rows[label]) >= 2
             THEN LET latest == quarterly_df.rows[label][1]
                      prev == quarterly_df.rows[label][2]
                      growth == FDiv(FSub(latest, prev), FAbs(prev))
                  IN  IF NonZero(prev)
                      THEN Signal(NpClip(FMul(growth, Num(5, 1)), MinusOne, One), None)
                      ELSE Skipped
             ELSE Skipped
    ELSE Skipped

\* Profit Margin (info["profitMargins"]); a non-number raises in the first
\* comparison, before anything is assigned
MarginSignal_NotCounted(info) ==
    LET margin == info.profitMargins
    IN  IF margin = None \/ margin = Str THEN Skipped
        ELSE [assigned |-> TRUE, value |-> NpClip(margin, MinusOne, One),
              counted |-> FALSE, raw |-> margin]
MarginSignal(info) ==
    LET margin == info.profitMargins
        banded == IF FGt(margin, Num(20, 100)) THEN PyMin(FMul(margin, Num(2, 1)), One)
                  ELSE IF FGt(margin, Num(10, 100)) THEN FSub(FMul(margin, Num(3, 1)), Num(3, 10))
                  ELSE IF FGt(margin, Zero) THEN FSub(FMul(margin, Num(2, 1)), Num(2, 10))
                  ELSE PyMax(FMul(margin, Num(2, 1)), MinusOne)
    IN  IF margin = None \/ margin = Str THEN Skipped
        ELSE Signal(NpClip(banded, MinusOne, One), margin)

\* Debt-to-Equity Ratio (from balance sheet)
DebtEquitySignal_DistressSkipped(balance_sheet_df) ==
    IF balance_sheet_df.present /\ ~DfEmpty(balance_sheet_df)
    THEN LET dl == FirstLabel(balance_sheet_df, DebtLabels)
             el == FirstLabel(balance_sheet_df, EquityLabels)
         IN  IF dl # "absent" /\ el # "absent"
             THEN LET total_debt == balance_sheet_df.rows[dl][1]
                      stockholders_equity == balance_sheet_df.rows[el][1]
                      de_ratio == FDiv(total_debt, stockholders_equity)
                  IN  IF FLe(stockholders_equity, Zero) THEN Skipped
                      ELSE IF FLt(de_ratio, Num(1, 2)) THEN Signal(One, de_ratio)
                      ELSE IF FLt(de_ratio, One) THEN Signal(Num(1, 2), de_ratio)
                      ELSE IF FLt(de_ratio, Num(2, 1)) THEN Signal(Num(-3, 10), de_ratio)
                      ELSE Signal(MinusOne, de_ratio)
             ELSE Skipped
    ELSE Skipped
DebtEquitySignal(balance_sheet_df) ==
    IF balance_sheet_df.present /\ ~DfEmpty(balance_sheet_df)
    THEN LET dl == FirstLabel(balance_sheet_df, DebtLabels)
             el == FirstLabel(balance_sheet_df, EquityLabels)
         IN  IF dl # "absent" /\ el # "absent"
             THEN LET total_debt == balance_sheet_df.rows[dl][1]
                      stockholders_equity == balance_sheet_df.rows[el][1]
                      de_ratio == FDiv(total_debt, stockholders_equity)
                  IN  IF FLe(stockholders_equity, Zero) THEN Signal(MinusOne, None)
                      ELSE IF FLt(de_ratio, Num(1, 2)) THEN Signal(One, de_ratio)
                      ELSE IF FLt(de_ratio, One) THEN Signal(Num(1, 2), de_ratio)
                      ELSE IF FLt(de_ratio, Num(2, 1)) THEN Signal(Num(-3, 10), de_ratio)
                      ELSE Signal(MinusOne, de_ratio)
             ELSE Skipped
    ELSE Skipped

\* Current Ratio (from balance sheet)
CurrentRatioSignal_ZeroIsBest(balance_sheet_df) ==
    IF balance_sheet_df.present /\ ~DfEmpty(balance_sheet_df)
    THEN LET al == FirstLabel(balance_sheet_df, CurrentAssetsLabels)
             ll == FirstLabel(balance_sheet_df, CurrentLiabilitiesLabels)
         IN  IF al # "absent" /\ ll # "absent"
             THEN LET current_assets == balance_sheet_df.rows[al][1]
                      current_liabilities == balance_sheet_df.rows[ll][1]
                      cr == FDiv(current_assets, current_liabilities)
                  IN  IF ~NonZero(current_liabilities) THEN Signal(One, None)
                      ELSE IF FGe(cr, Num(2, 1)) THEN Signal(One, cr)
                      ELSE IF FGe(cr, Num(3, 2)) THEN Signal(Num(6, 10), cr)
                      ELSE IF FGe(cr, One) THEN Signal(Num(2, 10), cr)
                      ELSE IF FGe(cr, Num(1, 2)) THEN Signal(Num(-5, 10), cr)
                      ELSE Signal(MinusOne, cr)
             ELSE Skipped
    ELSE Skipped
CurrentRatioSignal(balance_sheet_df) ==
    IF balance_sheet_df.present /\ ~DfEmpty(balance_sheet_df)
    THEN LET al == FirstLabel(balance_sheet_df, CurrentAssetsLabels)
             ll == FirstLabel(balance_sheet_df, CurrentLiabilitiesLabels)
         IN  IF al # "absent" /\ ll # "absent"
             THEN LET current_assets == balance_sheet_df.rows[al][1]
                      current_liabilities == balance_sheet_df.rows[ll][1]
                      cr == FDiv(current_assets, current_liabilities)
                  IN  IF ~NonZero(current_liabilities) THEN Skipped
                      ELSE IF FGe(cr, Num(2, 1)) THEN Signal(One, cr)
                      ELSE IF FGe(cr, Num(3, 2)) THEN Signal(Num(6, 10), cr)
                      ELSE IF FGe(cr, One) THEN Signal(Num(2, 10), cr)
                      ELSE IF FGe(cr, Num(1, 2)) THEN Signal(Num(-5, 10), cr)
                      ELSE Signal(MinusOne, cr)
             ELSE Skipped
    ELSE Skipped

\* Return on Equity (info["returnOnEquity"]); a non-number raises in
\* float(roe) or in the first comparison, before anything is assigned
RoeSignal_NotCounted(info) ==
    LET roe == info.returnOnEquity
    IN  IF roe = None \/ roe = Str THEN Skipped
        ELSE [assigned |-> TRUE, value |-> NpClip(roe, MinusOne, One),
              counted |-> FALSE, raw |-> roe]
RoeSignal(info) ==
    LET roe == info.returnOnEquity
        banded == IF FGe(roe, Num(25, 100)) THEN One
                  ELSE IF FGe(roe, Num(15, 100)) THEN Num(7, 10)
                  ELSE IF FGe(roe, Num(10, 100)) THEN Num(4, 10)
                  ELSE IF FGe(roe, Zero) THEN Num(1, 10)
                  ELSE PyMax(FMul(roe, Num(3, 1)), MinusOne)
    IN  IF roe = None \/ roe = Str THEN Skipped
        ELSE Signal(NpClip(banded, MinusOne, One), roe)

SignalNames == {"revenue_growth", "profit_margin", "profit_growth",
                "debt_to_equity", "current_ratio", "roe"}

FundWeight(name) ==
    CASE name = "revenue_growth" -> FUND_REVENUE_WEIGHT
      [] name = "profit_margin" -> FUND_MARGIN_WEIGHT
      [] name = "profit_growth" -> FUND_PROFIT_WEIGHT
      [] name = "debt_to_equity" -> FUND_DEBT_EQUITY_WEIGHT
      [] name = "current_ratio" -> FUND_CURRENT_RATIO_WEIGHT
      [] name = "roe" -> FUND_ROE_WEIGHT

\* Compute composite with available signals
FundComposite_AlwaysWeighted(signals, available_signals) ==
    FSum([name \in SignalNames |->
             FMul(IF name \in DOMAIN signals THEN signals[name] ELSE Zero,
                  FundWeight(name))], SignalNames)
FundComposite(signals, available_signals) ==
    IF available_signals = 6
    THEN FSum([name \in SignalNames |->
                  FMul(IF name \in DOMAIN signals THEN signals[name] ELSE Zero,
                       FundWeight(name))], SignalNames)
    ELSE FDiv(FSum(signals, DOMAIN signals), Num(Cardinality(DOMAIN signals), 1))

AnalyzeFundamentals(quarterly_df, info, balance_sheet_df) ==
    LET block == [revenue_growth |-> GrowthSignal(quarterly_df, RevenueLabels),
                  profit_margin |-> MarginSignal(info),
                  profit_growth |-> GrowthSignal(quarterly_df, ProfitLabels),
                  debt_to_equity |-> DebtEquitySignal(balance_sheet_df),
                  current_ratio |-> CurrentRatioSignal(balance_sheet_df),
                  roe |-> RoeSignal(info)]
        assigned == {name \in SignalNames : block[name].assigned}
        signals == [name \in assigned |-> block[name].value]
        available_signals == Cardinality({name \in SignalNames : block[name].counted})
    IN  IF available_signals = 0
        THEN [status |-> "insufficient_data", score |-> None]
        ELSE [status |-> "ok",
              score |-> NpClip(FundComposite(signals, available_signals), MinusOne, One),
              signals |-> signals,
              available_signals |-> available_signals,
              raw_margin |-> info.profitMargins,
              raw_de_ratio |-> block["debt_to_equity"].raw,
              raw_current_ratio |-> block["current_ratio"].raw,
              raw_roe |-> block["roe"].raw]

-----------------------------------------------------------------------------
(* Inputs of the scorers                                                   *)

\* closing prices are 0..MaxPrice; a series is a flat run followed by
\* TailLen free prices
MaxPrice == 3
TailLen == 3
Prices == 0..MaxPrice

RECURSIVE SeqsOfLen(_, _)
SeqsOfLen(S, n) ==
    IF n = 0 THEN {<<>>}
    ELSE {Append(q, x) : q \in SeqsOfLen(S, n - 1), x \in S}

RECURSIVE SeqsUpTo(_, _)
SeqsUpTo(S, n) == IF n = 0 THEN {<<>>} ELSE SeqsOfLen(S, n) \cup SeqsUpTo(S, n - 1)

Series(n, base, tail) ==
    [i \in 1..n |-> IF i <= n - Len(tail) THEN base ELSE tail[i - (n - Len(tail))]]

PriceHistories ==
    {NoHistory} \cup
    {History(Series(n, base, tail)) :
        n \in {SMA_LONG - 1, SMA_LONG, SMA_LONG + 1},
        base \in Prices, tail \in SeqsOfLen(Prices, TailLen)}

\* at most MaxHeadlines headlines per category
MaxHeadlines == 2
Headlines == {Headline("", Zero), Headline("text", MinusOne), Headline("text", Num(1, 2))}
NewsDicts ==
    [stock : SeqsUpTo(Headlines, MaxHeadlines),
     sector : SeqsUpTo(Headlines, MaxHeadlines),
     market : SeqsUpTo(Headlines, MaxHeadlines)]
NoNews == [stock |-> <<>>, sector |-> <<>>, market |-> <<>>]

\* cells of the quarterly income statement: 0, QBase, QBase + 1, -QBase, NaN
QBase == 10
QCells == {NaN, Zero, Num(QBase, 1), Num(QBase + 1, 1), Num(-QBase, 1)}

\* one row per concept, under its first or a later synonym; "both" puts two
\* synonyms in the index with different values
RevenueRows(ncols) ==
    {[l \in {} |-> <<>>]}
    \cup {[l \in {label} |-> row] :
            label \in {"Total Revenue", "Revenue"}, row \in SeqsOfLen(QCells, ncols)}
    \cup {[l \in {"TotalRevenue", "Revenue"} |->
              IF l = "TotalRevenue" THEN row ELSE [i \in 1..ncols |-> row[ncols + 1 - i]]] :
            row \in SeqsOfLen(QCells, ncols)}
ProfitRows(ncols) ==
    {[l \in {} |-> <<>>]}
    \cup {[l \in {"Net Income"} |-> row] : row \in SeqsOfLen(QCells, ncols)}

\* f and g have disjoint domains
Merge(f, g) == [l \in DOMAIN f \cup DOMAIN g |-> IF l \in DOMAIN f THEN f[l] ELSE g[l]]

QuarterlyTables ==
    {NoTable} \cup
    {Table(Merge(r, q)) : r \in RevenueRows(1), q \in ProfitRows(1)} \cup
    {Table(Merge(r, q)) : r \in RevenueRows(2), q \in ProfitRows(2)}
DefaultQuarterly ==
    Table([l \in {"Total Revenue", "Net Income"} |->
              IF l = "Total Revenue" THEN <<Num(QBase + 1, 1), Num(QBase, 1)>>
              ELSE <<Num(QBase, 1), Num(QBase + 1, 1)>>])

\* cells of the quarterly balance sheet: -1..MaxCell and NaN
MaxCell == 3
BCells == {NaN} \cup {Num(i, 1) : i \in -1..MaxCell}

OneRow(labels) ==
    {[l \in {} |-> <<>>]} \cup {[l \in {label} |-> <<cell>>] : label \in labels, cell \in BCells}

BalanceTables ==
    {NoTable} \cup
    {Table(Merge(Merge(d, e), Merge(a, l))) :
        d \in OneRow({"Total Debt"}),
        e \in OneRow({"Stockholders Equity", "Common Stock Equity"}),
        a \in OneRow({"Current Assets"}),
        l \in OneRow({"Total Current Liabilities"})}
DefaultBalance ==
    Table([l \in {"Total Debt", "Stockholders Equity", "Current Assets",
                  "Total Current Liabilities"} |-> <<Num(1, 1)>>])

\* info["profitMargins"] and info["returnOnEquity"]: absent, text or a ratio
MarginValues == {None, Str} \cup {Num(i, 100) : i \in {-60, -10, 0, 5, 10, 15, 20, 25, 60}}
RoeValues == {None, Str} \cup {Num(i, 100) : i \in {-50, -10, 0, 5, 10, 15, 25, 30}}
NoInfo == [profitMargins |-> None, returnOnEquity |-> None]

\* the arguments of analyze_fundamentals: one of the three inputs ranges over
\* all its values while each other one is absent or a fixed sample
FundamentalsArgs ==
    LET fewQ == {NoTable, DefaultQuarterly}
        fewB == {NoTable, DefaultBalance}
        fewR == {None, Num(15, 100)}
    IN  [quarterly_df : QuarterlyTables, balance_sheet_df : fewB,
         info : [profitMargins : fewR, returnOnEquity : fewR]]
        \cup [quarterly_df : fewQ, balance_sheet_df : BalanceTables,
              info : [profitMargins : fewR, returnOnEquity : fewR]]
        \cup [quarterly_df : fewQ, balance_sheet_df : fewB,
              info : [profitMargins : MarginValues, returnOnEquity : RoeValues]]

Args(price_df, news_dict, f) ==
    [price_df |-> price_df, news_dict |-> news_dict, quarterly_df |-> f.quarterly_df,
     info |-> f.info, balance_sheet_df |-> f.balance_sheet_df]
NoFundamentalsArgs == [quarterly_df |-> NoTable, info |-> NoInfo, balance_sheet_df |-> NoTable]

NoScorerResult == [status |-> "none", score |-> None]

ScorersInit ==
    /\ s_pc = "call"
    /\ s_result = NoScorerResult
    /\ \/ /\ s_op = "technical"
          /\ \E h \in PriceHistories : s_args = Args(h, NoNews, NoFundamentalsArgs)
       \/ /\ s_op = "sentiment"
          /\ \E news \in NewsDicts : s_args = Args(NoHistory, news, NoFundamentalsArgs)
       \/ /\ s_op = "fundamentals"
          /\ \E f \in FundamentalsArgs : s_args = Args(NoHistory, NoNews, f)

\* technical = calculate_technical_indicators(history)
CallTechnical ==
    /\ s_pc = "call" /\ s_op = "technical"
    /\ s_result' = CalculateTechnicalIndicators(s_args.price_df)
    /\ s_pc' = "done"
    /\ UNCHANGED <<s_op, s_args>>
    /\ UNCHANGED notScorers

\* sentiment = analyze_sentiment(news): the headlines of news get their score
CallSentiment ==
    /\ s_pc = "call" /\ s_op = "sentiment"
    /\ s_result' = AnalyzeSentiment(s_args.news_dict)
    /\ s_args' = [s_args EXCEPT !.news_dict = NewsAfterSentiment(s_args.news_dict)]
    /\ s_pc' = "done"
    /\ UNCHANGED s_op
    /\ UNCHANGED notScorers

\* fundamental = analyze_fundamentals(quarterly_income, info, balance_sheet_df=...)
CallFundamentals ==
    /\ s_pc = "call" /\ s_op = "fundamentals"
    /\ s_result' = AnalyzeFundamentals(s_args.quarterly_df, s_args.info, s_args.balance_sheet_df)
    /\ s_pc' = "done"
    /\ UNCHANGED <<s_op, s_args>>
    /\ UNCHANGED notScorers

ScorersOff ==
    /\ s_pc = "off"
    /\ s_op = "none"
    /\ s_args = Args(NoHistory, NoNews, NoFundamentalsArgs)
    /\ s_result = NoScorerResult

ScorersNext ==
    \/ CallTechnical
    \/ CallSentiment
    \/ CallFundamentals

-----------------------------------------------------------------------------
(* Section 7c: Bulk Stock Screener (run_screener)                          *)

\* What the collaborators of one loop iteration do, a "world" record:
\*   fetch        "ok" / "error": the status fetch_stock_data returns;
\*                "raise": the call raises
\*   raises       "none"; "scoring": get_stock_sector, a scorer or
\*                fetch_news_headlines raises; "key_metrics": compute_key_metrics
\*                raises
\*   technical, sentiment, fundamental   the results of the three scorers
\*   key_metrics  the dict compute_key_metrics returns

\* the pipeline of one item reaches generate_prediction
ReachesPrediction(w) == w.fetch = "ok" /\ w.raises = "none"

\* the item gets a row: no `continue` is taken and nothing raises
EntrySucceeds_IgnorePrediction(w) == ReachesPrediction(w)
EntrySucceeds(w) ==
    /\ ReachesPrediction(w)
    /\ GeneratePrediction(w.technical, w.sentiment, w.fundamental).status = "ok"

\* results.append({...})
ScreenerRow_AllScores(name, ticker, w) ==
    LET prediction == GeneratePrediction(w.technical, w.sentiment, w.fundamental)
        present(v) == IF v = None THEN Zero ELSE v
    IN  [Stock |-> name,
         Ticker |-> ticker,
         Action |-> prediction.action,
         Confidence |-> prediction.confidence,
         Score |-> prediction.score,
         TechScore |-> present(w.technical.score),
         SentimentScore |-> present(w.sentiment.score),
         FundamentalScore |-> present(w.fundamental.score),
         KeyMetrics |-> w.key_metrics,
         CMP |-> w.technical.current_price]
ScreenerRow(name, ticker, w) ==
    LET prediction == GeneratePrediction(w.technical, w.sentiment, w.fundamental)
    IN  [Stock |-> name,
         Ticker |-> ticker,
         Action |-> prediction.action,
         Confidence |-> prediction.confidence,
         Score |-> prediction.score,
         TechScore |-> w.technical.score,
         SentimentScore |-> w.sentiment.score,
         FundamentalScore |-> w.fundamental.score,
         KeyMetrics |-> w.key_metrics,
         CMP |-> w.technical.current_price]

\* the rows after the iteration for item (name, ticker)
RowsAfter(rows, name, ticker, w) ==
    IF EntrySucceeds(w) THEN Append(rows, ScreenerRow(name, ticker, w)) ELSE rows

\* the position the loop is at after an item: `continue` and `except` go on
\* with the next item
NextIdx_AbortOnRaise(i, total, w) ==
    IF w.fetch = "raise" \/ w.raises # "none" THEN total ELSE i + 1
NextIdx(i, total, w) == i + 1

\* run_screener as a whole, for the items from position i on
RECURSIVE RunScreenerFrom(_, _, _, _)
RunScreenerFrom(items, worlds, i, rows) ==
    IF i >= Len(items) THEN rows
    ELSE RunScreenerFrom(items, worlds, NextIdx(i, Len(items), worlds[i + 1]),
                         RowsAfter(rows, items[i + 1].name, items[i + 1].ticker, worlds[i + 1]))
RunScreener(items, worlds) == RunScreenerFrom(items, worlds, 0, <<>>)

\* at most MaxEntries items in stock_dict
MaxEntries == 5

Item(i) == [name |-> i, ticker |-> 100 + i]
StockDicts == {[i \in 1..n |-> Item(i)] : n \in 0..MaxEntries}

NoTechnical == [status |-> "insufficient_data", score |-> None, current_price |-> None]
SomeTechnical == [status |-> "ok", score |-> Num(7, 10), current_price |-> Num(100, 1)]
NoKeyMetrics == [pe_ratio |-> None, piotroski_score |-> None]
SomeKeyMetrics == [pe_ratio |-> Num(12, 1), piotroski_score |-> Num(5, 1)]

World(fetch, raises, technical, sentiment, fundamental, key_metrics) ==
    [fetch |-> fetch, raises |-> raises, technical |-> technical,
     sentiment |-> sentiment, fundamental |-> fundamental, key_metrics |-> key_metrics]

\* the four ways an item fails before generate_prediction, an item whose three
\* scorers are all insufficient, one with all three ok and one without a
\* technical score (a price history shorter than SMA_LONG)
FetchError == World("error", "none", NoTechnical, InsufficientData, InsufficientData, NoKeyMetrics)
FetchRaises == World("raise", "none", NoTechnical, InsufficientData, InsufficientData, NoKeyMetrics)
ScoringRaises == World("ok", "scoring", NoTechnical, InsufficientData, InsufficientData, NoKeyMetrics)
KeyMetricsRaises ==
    World("ok", "key_metrics", SomeTechnical, OkResult(Num(-2, 10)), OkResult(Num(5, 10)), NoKeyMetrics)
AllInsufficient == World("ok", "none", NoTechnical, InsufficientData, InsufficientData, SomeKeyMetrics)
AllOk == World("ok", "none", SomeTechnical, OkResult(Num(-2, 10)), OkResult(Num(5, 10)), SomeKeyMetrics)
NoTechnicalScore ==
    World("ok", "none", NoTechnical, OkResult(Num(-2, 10)), OkResult(Num(-8, 10)), NoKeyMetrics)

Worlds == {FetchError, FetchRaises, ScoringRaises, KeyMetricsRaises,
           AllInsufficient, AllOk, NoTechnicalScore}

ScreenerInit ==
    /\ scr_pc = "call"
    /\ stock_dict \in StockDicts
    /\ idx = 0
    /\ results = <<>>
    /\ scr_log = <<>>

ScreenerOff ==
    /\ scr_pc = "off"
    /\ stock_dict = <<>>
    /\ idx = 0
    /\ results = <<>>
    /\ scr_log = <<>>

\* results = []; total = len(stock_dict); the progress bar is set up
BeginScreener ==
    /\ scr_pc = "call"
    /\ scr_pc' = "loop"
    /\ results' = <<>>
    /\ idx' = 0
    /\ UNCHANGED <<stock_dict, scr_log>>
    /\ UNCHANGED notScreener

\* one iteration of the for loop: the whole try block for one item
ScreenEntry ==
    /\ scr_pc = "loop"
    /\ idx < Len(stock_dict)
    /\ \E w \in Worlds :
          /\ results' = RowsAfter(results, stock_dict[idx + 1].name,
                                  stock_dict[idx + 1].ticker, w)
          /\ idx' = NextIdx(idx, Len(stock_dict), w)
          /\ scr_log' = Append(scr_log, [item |-> stock_dict[idx + 1], world |-> w])
    /\ UNCHANGED <<scr_pc, stock_dict>>
    /\ UNCHANGED notScreener

\* the loop is over: the progress bar is cleared and results returned
ReturnResults ==
    /\ scr_pc = "loop"
    /\ idx >= Len(stock_dict)
    /\ scr_pc' = "done"
    /\ UNCHANGED <<stock_dict, idx, results, scr_log>>
    /\ UNCHANGED notScreener

ScreenerNext ==
    \/ BeginScreener
    \/ ScreenEntry
    \/ ReturnResults

-----------------------------------------------------------------------------
(* Section 10: main(), the screener branch                                 *)

\* st.session_state.get("screener_results") is None until a run stored a list
Unset == [set |-> FALSE, rows |-> <<>>]
Stored(rows) == [set |-> TRUE, rows |-> rows]

\* if screener_btn: st.session_state["screener_results"] = run_screener(...)
StartsRun(screener_btn) == screener_btn
SessionAfter_StoresEveryRerun(session, screener_btn, run) == Stored(run)
SessionAfter_KeepIfEmpty(session, screener_btn, run) ==
    IF screener_btn /\ run # <<>> THEN Stored(run) ELSE session
SessionAfter(session, screener_btn, run) ==
    IF screener_btn THEN Stored(run) ELSE session

\* results = st.session_state.get("screener_results"); if results: ...
\* elif screener_btn: ... else: ...
ScreenerView(session, screener_btn) ==
    IF session.set /\ session.rows # <<>> THEN "results"
    ELSE IF screener_btn THEN "warning"
    ELSE "info"

\* render_screener_results(results): the rows the results view is given
ShownRows(session, screener_btn) ==
    IF ScreenerView(session, screener_btn) = "results" THEN session.rows ELSE <<>>

\* a scope holds at most MaxScope stocks
MaxScope == 3
Scope(n) == [i \in 1..n |-> Item(i)]
Scopes == {Scope(n) : n \in 0..MaxScope}

\* the lists run_screener can return for the scope of n stocks, over all the
\* worlds its items can meet
PossibleRuns ==
    [n \in 0..MaxScope |-> {RunScreener(Scope(n), worlds) : worlds \in SeqsOfLen(Worlds, n)}]

UiInit ==
    /\ ui_session = Unset
    /\ ui_view = "none"
    /\ ui_last = [mode |-> "none", screener_btn |-> FALSE, ran |-> FALSE, run |-> <<>>,
                  found |-> Unset, shown |-> <<>>]

UiOff == UiInit

\* a rerun of main() in Stock Screener mode: screener_stocks is the scope the
\* widgets select, screener_btn whether Run Screener was pressed
RerunScreenerMode ==
    \E screener_stocks \in Scopes, screener_btn \in BOOLEAN :
    \E run \in (IF StartsRun(screener_btn) THEN PossibleRuns[Len(screener_stocks)]
                ELSE {<<>>}) :
    \E session \in {SessionAfter(ui_session, screener_btn, run)} :
        /\ ui_session' = session
        /\ ui_view' = ScreenerView(session, screener_btn)
        /\ ui_last' = [mode |-> "Stock Screener", screener_btn |-> screener_btn,
                       ran |-> StartsRun(screener_btn), run |-> run, found |-> ui_session,
                       shown |-> ShownRows(session, screener_btn)]
        /\ UNCHANGED notUi

\* a rerun of main() in another input mode: the screener branch is not taken
RerunOtherMode ==
    /\ ui_view' = "other"
    /\ ui_last' = [mode |-> "other", screener_btn |-> FALSE, ran |-> FALSE, run |-> <<>>,
                   found |-> ui_session, shown |-> <<>>]
    /\ UNCHANGED ui_session
    /\ UNCHANGED notUi

UiNext ==
    \/ RerunScreenerMode
    \/ RerunOtherMode

-----------------------------------------------------------------------------
(* Section 4: fetch_news_headlines, followed by analyze_sentiment          *)

\* what the feed of one category does: the retrieval fails (feedparser.parse
\* raises, or yields no feed) or it yields entries
FeedFails == [ok |-> FALSE, entries |-> <<>>]
Feed(entries) == [ok |-> TRUE, entries |-> entries]

\* feed.entries[:10]
FirstTen(entries) == SubSeq(entries, 1, IF Len(entries) < 10 THEN Len(entries) ELSE 10)

\* results[category] = headlines, or [] when the retrieval failed
FetchNewsHeadlines(feeds) ==
    [category \in DOMAIN feeds |->
        IF ~feeds[category].ok THEN <<>> ELSE FirstTen(feeds[category].entries)]

OneFeed == {FeedFails} \cup {Feed(entries) : entries \in SeqsUpTo(Headlines, MaxHeadlines)}
Feeds == [stock : OneFeed, sector : OneFeed, market : OneFeed]

NewsInit ==
    /\ n_pc = "fetch"
    /\ n_feeds \in Feeds
    /\ n_news = NoNews
    /\ n_result = NoScorerResult

NewsOff ==
    /\ n_pc = "off"
    /\ n_feeds = [stock |-> FeedFails, sector |-> FeedFails, market |-> FeedFails]
    /\ n_news = NoNews
    /\ n_result = NoScorerResult

\* news = fetch_news_headlines(name, sector, market=market)
FetchNews ==
    /\ n_pc = "fetch"
    /\ n_news' = FetchNewsHeadlines(n_feeds)
    /\ n_pc' = "analyze"
    /\ UNCHANGED <<n_feeds, n_result>>
    /\ UNCHANGED notNews

\* sentiment = analyze_sentiment(news)
AnalyzeNews ==
    /\ n_pc = "analyze"
    /\ n_result' = AnalyzeSentiment(n_news)
    /\ n_news' = NewsAfterSentiment(n_news)
    /\ n_pc' = "done"
    /\ UNCHANGED n_feeds
    /\ UNCHANGED notNews

NewsNext ==
    \/ FetchNews
    \/ AnalyzeNews

-----------------------------------------------------------------------------
(* Section 7b: compute_key_metrics in run_screener                         *)

\* the fields of info that only compute_key_metrics reads
KeyInfos == [trailingPE : {None, Num(12, 1)},
             debtToEquity : {None, Str, Num(50, 1), Num(150, 1)}]

\* metrics["debt_to_equity"] = de / 100.0 is outside every try block: it
\* raises TypeError when de is text
DirectMetricsRaise(info) == info.debtToEquity = Str

\* the metrics taken directly from info
DirectMetrics(info) ==
    [pe_ratio |-> info.trailingPE,
     debt_to_equity |-> IF info.debtToEquity = None THEN None
                        ELSE FDiv(info.debtToEquity, Num(100, 1)),
     piotroski_score |-> None]

\* what one loop iteration of run_screener meets for a security whose fetch
\* and scorers return entry and whose key-metrics fields are info
WorldOf(entry, info) ==
    World(entry.fetch,
          IF entry.fetch = "ok" /\ DirectMetricsRaise(info) THEN "key_metrics" ELSE "none",
          entry.technical, entry.sentiment, entry.fundamental,
          IF DirectMetricsRaise(info) THEN NoKeyMetrics ELSE DirectMetrics(info))

Entries ==
    [fetch : {"ok", "error"},
     technical : {NoTechnical, SomeTechnical},
     sentiment : {InsufficientData, OkResult(Num(-2, 10))},
     fundamental : {InsufficientData, OkResult(Num(5, 10)), OkResult(Num(-8, 10))}]

KeyInit ==
    /\ k_pc = "call"
    /\ k_entry \in Entries
    /\ k_info \in KeyInfos \X KeyInfos
    /\ k_rows = <<<<>>, <<>>>>

KeyOff ==
    /\ k_pc = "off"
    /\ k_entry = [fetch |-> "error", technical |-> NoTechnical,
                  sentiment |-> InsufficientData, fundamental |-> InsufficientData]
    /\ k_info = <<[trailingPE |-> None, debtToEquity |-> None],
                  [trailingPE |-> None, debtToEquity |-> None]>>
    /\ k_rows = <<<<>>, <<>>>>

\* run_screener over the one security, once with each key-metrics input
ScreenTwice ==
    /\ k_pc = "call"
    /\ k_rows' = <<RunScreener(<<Item(1)>>, <<WorldOf(k_entry, k_info[1])>>),
                   RunScreener(<<Item(1)>>, <<WorldOf(k_entry, k_info[2])>>)>>
    /\ k_pc' = "done"
    /\ UNCHANGED <<k_entry, k_info>>
    /\ UNCHANGED notKey

KeyNext == ScreenTwice

-----------------------------------------------------------------------------
(* Section 7b: Key Financial Metrics (compute_key_metrics)                 *)

\* A row of an annual statement, as _safe_get_row returns it: found = FALSE
\* is None, cells are the period values, latest first. A cell is a number,
\* NaN, or Str for a cell float() raises on.
NoRow == [found |-> FALSE, cells |-> <<>>]

\* _safe_get_row(df, labels): the first matching row, None for no table, an
\* empty table or no matching label
SafeGetRow(df, labels) ==
    IF ~df.present \/ DfEmpty(df) THEN NoRow
    ELSE LET label == FirstLabel(df, labels)
         IN  IF label = "absent" THEN NoRow
             ELSE [found |-> TRUE, cells |-> df.rows[label]]

EbitLabels == <<"EBIT", "Operating Income", "OperatingIncome">>
TotalAssetsLabels == <<"Total Assets", "TotalAssets">>
CfoLabels == <<"Operating Cash Flow", "Total Cash From Operating Activities",
               "Cash Flow From Continuing Operating Activities">>
LongTermDebtLabels == <<"Long Term Debt", "LongTermDebt",
                        "Long Term Debt And Capital Lease Obligation">>
SharesLabels == <<"Ordinary Shares Number", "Share Issued", "Common Stock">>
GrossProfitLabels == <<"Gross Profit", "GrossProfit">>

PyMinInt(a, b) == IF b < a THEN b ELSE a

\* for i in range(n_years): if den and den != 0: values.append(float(num) / float(den))
RECURSIVE RatioValues(_, _, _, _)
RatioValues(num, den, n_years, i) ==
    IF i > n_years THEN <<>>
    ELSE (IF NonZero(den[i]) THEN <<FDiv(num[i], den[i])>> ELSE <<>>)
             \o RatioValues(num, den, n_years, i + 1)

\* sum(values[:min(k, len(values))]) / min(k, len(values))
MeanOfFirst(values, k) ==
    LET m == PyMinInt(k, Len(values))
    IN  FDiv(FSum(values, 1..m), Num(m, 1))

\* the latest / 3yr / 5yr entries of metrics that a list of yearly values gives
NoAverages == [latest |-> None, avg3 |-> None, avg5 |-> None]
Averages(values) ==
    [latest |-> IF Len(values) >= 1 THEN values[1] ELSE None,
     avg3 |-> IF Len(values) >= 2 THEN MeanOfFirst(values, 3) ELSE None,
     avg5 |-> IF Len(values) >= 4 THEN MeanOfFirst(values, 5) ELSE None]

\* Multi-year ROE
MultiYearRoe(annual_income, annual_balance) ==
    LET ni_row == SafeGetRow(annual_income, ProfitLabels)
        eq_row == SafeGetRow(annual_balance, EquityLabels)
        n_years == PyMinInt(PyMinInt(Len(ni_row.cells), Len(eq_row.cells)), 5)
        raises == \E i \in 1..n_years :
                      /\ NonZero(eq_row.cells[i])
                      /\ (ni_row.cells[i] = Str \/ eq_row.cells[i] = Str)
    IN  IF annual_income.present /\ annual_balance.present
           /\ ni_row.found /\ eq_row.found /\ ~raises
        THEN Averages(RatioValues(ni_row.cells, eq_row.cells, n_years, 1))
        ELSE NoAverages

\* Multi-year ROCE
MultiYearRoce(annual_income, annual_balance) ==
    LET ebit_row == SafeGetRow(annual_income, EbitLabels)
        ta_row == SafeGetRow(annual_balance, TotalAssetsLabels)
        cl_row == SafeGetRow(annual_balance, CurrentLiabilitiesLabels)
        n_years == PyMinInt(PyMinInt(Len(ebit_row.cells), Len(ta_row.cells)),
                            PyMinInt(Len(cl_row.cells), 5))
        capital_employed == [i \in 1..n_years |-> FSub(ta_row.cells[i], cl_row.cells[i])]
        raises == \E i \in 1..n_years :
                      \/ ta_row.cells[i] = Str \/ cl_row.cells[i] = Str
                      \/ (NonZero(capital_employed[i]) /\ ebit_row.cells[i] = Str)
    IN  IF annual_income.present /\ annual_balance.present
           /\ ebit_row.found /\ ta_row.found /\ cl_row.found /\ ~raises
        THEN Averages(RatioValues(ebit_row.cells, capital_employed, n_years, 1))
        ELSE NoAverages

\* the outcome of one Piotroski test: "pass", "fail", or "raise" when a
\* float() it evaluates raises
Verdict(raises, passed) == IF raises THEN "raise" ELSE IF passed THEN "pass" ELSE "fail"

\* tests 5 and 7: row.iloc[0] <= row.iloc[1], passed when the row is missing
\* or has one period
NotIncreased_AbsenceFails(row) ==
    IF row.found /\ Len(row.cells) >= 2
    THEN Verdict(row.cells[1] = Str \/ row.cells[2] = Str, FLe(row.cells[1], row.cells[2]))
    ELSE "fail"
NotIncreased(row) ==
    IF row.found /\ Len(row.cells) >= 2
    THEN Verdict(row.cells[1] = Str \/ row.cells[2] = Str, FLe(row.cells[1], row.cells[2]))
    ELSE "pass"

\* tests 6, 8 and 9: num / den of the latest period >= that of the previous
\* one, failed when a row is missing, has one period or a den is zero
RatioIncreased(num_row, den_row) ==
    IF num_row.found /\ den_row.found /\ Len(num_row.cells) >= 2 /\ Len(den_row.cells) >= 2
    THEN LET curr == den_row.cells[1]
             prev == den_row.cells[2]
         IN  IF curr = Str \/ prev = Str THEN "raise"
             ELSE IF NonZero(curr) /\ NonZero(prev)
             THEN Verdict(num_row.cells[1] = Str \/ num_row.cells[2] = Str,
                          FGe(FDiv(num_row.cells[1], curr), FDiv(num_row.cells[2], prev)))
             ELSE "fail"
    ELSE "fail"

\* tests 3 and 4: on the latest operating cash flow, failed without the row
OnCashFlow(cfo_row, raises, passed) ==
    IF cfo_row.found /\ Len(cfo_row.cells) >= 1
    THEN Verdict(cfo_row.cells[1] = Str \/ raises, passed)
    ELSE "fail"

PiotroskiLabels ==
    <<"Net Income > 0", "ROA > 0", "Operating Cash Flow > 0", "Cash Flow > Net Income",
      "Long-term Debt Decreased", "Current Ratio Increased", "No New Shares Issued",
      "Gross Margin Increased", "Asset Turnover Increased">>

\* has_two_years = all(r is not None and len(r) >= 2 for r in [ni_row, ta_row])
HasTwoYears_NetIncomeOnly(ni_row, ta_row) == ni_row.found /\ Len(ni_row.cells) >= 2
HasTwoYears(ni_row, ta_row) ==
    /\ ni_row.found /\ Len(ni_row.cells) >= 2
    /\ ta_row.found /\ Len(ta_row.cells) >= 2

\* the nine tests in the order they are appended to details
PiotroskiTests(annual_income, annual_balance, cashflow) ==
    LET ni_row == SafeGetRow(annual_income, ProfitLabels)
        ta_row == SafeGetRow(annual_balance, TotalAssetsLabels)
        cfo_row == SafeGetRow(cashflow, CfoLabels)
        ltd_row == SafeGetRow(annual_balance, LongTermDebtLabels)
        ca_row == SafeGetRow(annual_balance, CurrentAssetsLabels)
        cl_row == SafeGetRow(annual_balance, CurrentLiabilitiesLabels)
        shares_row == SafeGetRow(annual_balance, SharesLabels)
        gp_row == SafeGetRow(annual_income, GrossProfitLabels)
        rev_row == SafeGetRow(annual_income, RevenueLabels)
        ni == ni_row.cells[1]
        ta == ta_row.cells[1]
    IN  <<Verdict(ni = Str, FGt(ni, Zero)),
          IF ta_row.found
          THEN Verdict(ta = Str, NonZero(ta) /\ FGt(FDiv(ni, ta), Zero))
          ELSE "fail",
          OnCashFlow(cfo_row, FALSE, FGt(cfo_row.cells[1], Zero)),
          OnCashFlow(cfo_row, FALSE, FGt(cfo_row.cells[1], ni)),
          NotIncreased(ltd_row),
          RatioIncreased(ca_row, cl_row),
          NotIncreased(shares_row),
          RatioIncreased(gp_row, rev_row),
          RatioIncreased(rev_row, ta_row)>>

\* score += int(result), once per test
PiotroskiScore_ForgetsNinth(tests) == Cardinality({t \in 1..8 : tests[t] = "pass"})
PiotroskiScore(tests) == Cardinality({t \in 1..9 : tests[t] = "pass"})

NoPiotroski == [reported |-> FALSE, score |-> None, details |-> <<>>]

\* Piotroski F-Score: score and details, assigned after the ninth test
PiotroskiFScore(annual_income, annual_balance, cashflow) ==
    LET ni_row == SafeGetRow(annual_income, ProfitLabels)
        ta_row == SafeGetRow(annual_balance, TotalAssetsLabels)
        tests == PiotroskiTests(annual_income, annual_balance, cashflow)
    IN  IF /\ annual_income.present /\ annual_balance.present /\ cashflow.present
           /\ HasTwoYears(ni_row, ta_row)
           /\ \A t \in 1..9 : tests[t] # "raise"
        THEN [reported |-> TRUE,
              score |-> Num(PiotroskiScore(tests), 1),
              details |-> [t \in 1..9 |-> <<PiotroskiLabels[t], tests[t] = "pass">>]]
        ELSE NoPiotroski

\* compute_key_metrics(info, annual_income, annual_balance, cashflow): raises
\* when the direct metrics do, otherwise the metrics dict (piotroski_details
\* None is the empty sequence)
ComputeKeyMetrics(info, annual_income, annual_balance, cashflow) ==
    LET direct == DirectMetrics(info)
        roe == MultiYearRoe(annual_income, annual_balance)
        roce == MultiYearRoce(annual_income, annual_balance)
        f == PiotroskiFScore(annual_income, annual_balance, cashflow)
    IN  [raises |-> DirectMetricsRaise(info),
         pe_ratio |-> direct.pe_ratio,
         debt_to_equity |-> direct.debt_to_equity,
         roe_latest |-> roe.latest, roe_3yr |-> roe.avg3, roe_5yr |-> roe.avg5,
         roce_latest |-> roce.latest, roce_3yr |-> roce.avg3, roce_5yr |-> roce.avg5,
         piotroski_score |-> f.score,
         piotroski_details |-> f.details]

-----------------------------------------------------------------------------
(* Inputs of compute_key_metrics                                           *)

\* annual statements hold at most MaxYears periods
MaxYears == 6

\* a table of the given rows; rows is a set of <<label, cells>>
TableOf(rows) == Table([l \in {r[1] : r \in rows} |-> (CHOOSE r \in rows : r[1] = l)[2]])

\* one row under label with any of the cells given, or no such row
AnyRow(label, options) == {{}} \cup {{<<label, cells>>} : cells \in options}

Years(n) == [i \in 1..n |-> Num(i, 1)]
Twos(n) == [i \in 1..n |-> Num(2, 1)]

\* equity and current liabilities of n periods: 0, 1 or 2 in each, or NaN or
\* a cell that is not a number in one of the two latest
Liabilities(n) ==
    LET plain == SeqsOfLen({Zero, One, Num(2, 1)}, n)
    IN  plain \cup {[row EXCEPT ![i] = bad] :
                       row \in plain, i \in 1..PyMinInt(n, 2), bad \in {NaN, Str}}

NoKeyInfo == [trailingPE |-> None, debtToEquity |-> None]

MetricsArgsOf(info, annual_income, annual_balance, cashflow) ==
    [info |-> info, annual_income |-> annual_income,
     annual_balance |-> annual_balance, cashflow |-> cashflow]

\* several years of net income, EBIT, equity, total assets and current
\* liabilities; the income statement has as many periods or three
YearlyArgs ==
    {MetricsArgsOf(NoKeyInfo,
                   TableOf({<<"Net Income", Years(n_i)>>, <<"EBIT", Years(n_i)>>}),
                   TableOf({<<"Stockholders Equity", row>>, <<"Total Assets", Twos(Len(row))>>,
                            <<"Current Liabilities", row>>}),
                   NoTable) :
        n_i \in {3} \cup 0..MaxYears, row \in UNION {Liabilities(n) : n \in 0..MaxYears}}

Up == <<Num(1, 1), Num(2, 1)>>
Down == <<Num(2, 1), Num(1, 1)>>
Trend == {Up, Down}

\* two periods, the rows of the profitability tests varying
ProfitabilityArgs ==
    {MetricsArgsOf(NoKeyInfo,
                   TableOf({<<"Net Income", ni>>} \cup IF others = <<>> THEN {}
                           ELSE {<<"Gross Profit", others>>, <<"Total Revenue", others>>}),
                   TableOf(ta \cup IF others = <<>> THEN {}
                           ELSE {<<"Long Term Debt", others>>, <<"Current Assets", others>>,
                                 <<"Current Liabilities", others>>,
                                 <<"Ordinary Shares Number", others>>}),
                   cashflow) :
        ni \in Trend \cup {<<MinusOne, One>>, <<Zero, One>>, <<NaN, One>>, <<Str, One>>},
        ta \in AnyRow("Total Assets", Trend \cup {<<Zero, One>>, <<MinusOne, One>>}),
        cashflow \in {NoTable, TableOf({})}
                     \cup {TableOf({<<"Operating Cash Flow", cfo>>}) :
                              cfo \in {Up, <<Num(3, 1), One>>, <<MinusOne, One>>, <<Str, One>>}},
        others \in {<<>>} \cup Trend}

\* two periods, the rows of the leverage and efficiency tests varying
TrendArgs ==
    {MetricsArgsOf(NoKeyInfo,
                   TableOf({<<"Net Income", Down>>} \cup gp \cup rev),
                   TableOf({<<"TotalAssets", Down>>} \cup ltd \cup ca \cup cl \cup shares),
                   TableOf({<<"Operating Cash Flow", <<Num(3, 1), One>>>>})) :
        gp \in AnyRow("Gross Profit", Trend),
        rev \in AnyRow("Revenue", Trend \cup {<<Zero, One>>}),
        ltd \in AnyRow("Long Term Debt", Trend \cup {<<One, One>>, <<Str, One>>}),
        ca \in AnyRow("Current Assets", Trend),
        cl \in AnyRow("Total Current Liabilities", Trend \cup {<<One, Zero>>}),
        shares \in AnyRow("Share Issued", Trend)}

\* every combination of missing rows and tables, the rows of n periods
IncomeRows == {"Net Income", "Gross Profit", "Total Revenue"}
BalanceRows == {"Total Assets", "Long Term Debt", "Current Assets", "Current Liabilities",
                "Ordinary Shares Number"}
MissingArgs ==
    {MetricsArgsOf(NoKeyInfo, annual_income, annual_balance, cashflow) :
        annual_income \in {NoTable} \cup
            {TableOf({<<l, Years(n)>> : l \in ls}) : ls \in SUBSET IncomeRows, n \in 1..2},
        annual_balance \in {NoTable} \cup
            {TableOf({<<l, Years(n)>> : l \in ls}) : ls \in SUBSET BalanceRows, n \in 1..3},
        cashflow \in {NoTable, TableOf({}), TableOf({<<"Operating Cash Flow", Years(1)>>})}}

\* the metadata fields varying, the statements fixed
InfoArgs ==
    {MetricsArgsOf(info, TableOf({<<"Net Income", Down>>}), TableOf({<<"Total Assets", Down>>}),
                   TableOf({})) : info \in KeyInfos}

NoMetrics == ComputeKeyMetrics(NoKeyInfo, NoTable, NoTable, NoTable)

MetricsInit ==
    /\ m_pc = "call"
    /\ \/ m_args \in YearlyArgs
       \/ m_args \in ProfitabilityArgs
       \/ m_args \in TrendArgs
       \/ m_args \in MissingArgs
       \/ m_args \in InfoArgs
    /\ m_result = NoMetrics

MetricsOff ==
    /\ m_pc = "off"
    /\ m_args = MetricsArgsOf(NoKeyInfo, NoTable, NoTable, NoTable)
    /\ m_result = NoMetrics

\* key_metrics = compute_key_metrics(info, annual_income, annual_balance, cashflow)
CallKeyMetrics ==
    /\ m_pc = "call"
    /\ m_result' = ComputeKeyMetrics(m_args.info, m_args.annual_income,
                                     m_args.annual_balance, m_args.cashflow)
    /\ m_pc' = "done"
    /\ UNCHANGED m_args
    /\ UNCHANGED notMetrics

MetricsNext == CallKeyMetrics

-----------------------------------------------------------------------------
(* Properties of generate_prediction (checked under SpecPred)              *)

PArg(name) ==
    CASE name = "technical" -> p_technical
      [] name = "fundamental" -> p_fundamental
      [] name = "sentiment" -> p_sentiment

\* the scorers whose result has status ok
POk == {name \in ComponentNames : PArg(name).status = "ok"}

\* v is a number in [-1, 1]
InUnit(v) == IsNum(v) /\ -v.d <= v.n /\ v.n <= v.d

\* the nominal weights in hundredths
Hundredths(name) ==
    CASE name = "technical" -> 45
      [] name = "fundamental" -> 30
      [] name = "sentiment" -> 25

RECURSIVE HundredthsOf(_)
HundredthsOf(names) ==
    IF names = {} THEN 0
    ELSE LET k == CHOOSE x \in names : TRUE
         IN  Hundredths(k) + HundredthsOf(names \ {k})

\* C1: whenever at least one of the three results has status ok with a score
\* in [-1,1], the prediction has status ok, a score in [-1,1] and a
\* confidence in [5,100].
C1_ScoreAndConfidenceInRange ==
    (p_pc = "done" /\ \E name \in POk : InUnit(PArg(name).score))
        => /\ p_result.status = "ok"
           /\ InUnit(p_result.score)
           /\ FLe(Num(5, 1), p_result.confidence)
           /\ FLe(p_result.confidence, Num(100, 1))

\* C2: the prediction is the error "No analysis data available", with no
\* action, score or confidence, exactly when no result has status ok; with
\* one or two unusable results it is ok and uses exactly the usable ones.
C2_ErrorIffNoneUsable ==
    p_pc = "done" =>
        /\ (POk = {}) <=> (p_result.status = "error")
        /\ p_result.status = "error" =>
              /\ p_result.message = "No analysis data available"
              /\ p_result.action = "absent"
              /\ p_result.score = None
              /\ p_result.confidence = None
        /\ POk # {} =>
              /\ p_result.status = "ok"
              /\ DOMAIN p_result.components = POk
              /\ \A name \in POk : p_result.components[name] = PArg(name).score

C2_Witness ==
    /\ p_pc = "done"
    /\ p_technical.status = "insufficient_data"
    /\ p_fundamental.status = "error"
    /\ p_sentiment.status = "ok"
    /\ p_result.status = "ok"
    /\ DOMAIN p_result.components = {"sentiment"}

\* C3: in an ok prediction the weights have the keys of the components (the
\* ok scorers), each is the nominal weight over the sum of the nominal weights
\* present, they sum to 1, and the score is the weighted sum clamped to [-1,1]
\* (NaN exactly when a component score is NaN).
C3_WeightsRenormalised ==
    (p_pc = "done" /\ p_result.status = "ok") =>
        LET w == p_result.weights
            c == p_result.components
            total == HundredthsOf(POk)
            blend == FDiv(FSum([name \in POk |-> FMul(c[name], Num(Hundredths(name), 1))], POk),
                          Num(total, 1))
        IN  /\ DOMAIN w = POk
            /\ DOMAIN c = POk
            /\ \A name \in POk : IsNum(w[name]) /\ w[name].n * total = Hundredths(name) * w[name].d
            /\ FSum(w, POk) = One
            /\ IsNaN(p_result.score) <=> (\E name \in POk : IsNaN(c[name]))
            /\ IsNum(blend) =>
                  /\ FLt(blend, MinusOne) => p_result.score = MinusOne
                  /\ FGt(blend, One) => p_result.score = One
                  /\ InUnit(blend) => p_result.score = blend

\* only technical 0.7 and sentiment -0.2: weights 0.45/0.70 and 0.25/0.70,
\* score 53/140 (about 0.379), BUY
C3_Witness ==
    /\ p_pc = "done"
    /\ p_technical = OkResult(Num(7, 10))
    /\ p_sentiment = OkResult(Num(-2, 10))
    /\ p_fundamental.status # "ok"
    /\ p_result.weights["technical"] = Num(45, 70)
    /\ p_result.weights["sentiment"] = Num(25, 70)
    /\ p_result.score = Num(53, 140)
    /\ p_result.action = "BUY"

\* C4: in an ok prediction the action is BUY exactly when score >= 0.3, SELL
\* exactly when score <= -0.3, HOLD otherwise (0.3 and -0.3 included).
C4_ActionThresholds ==
    (p_pc = "done" /\ p_result.status = "ok") =>
        LET s == p_result.score
            ge == IsNum(s) /\ 10 * s.n >= 3 * s.d
            le == IsNum(s) /\ 10 * s.n <= -3 * s.d
        IN  /\ p_result.action \in {"BUY", "HOLD", "SELL"}
            /\ (p_result.action = "BUY") <=> ge
            /\ (p_result.action = "SELL") <=> le
            /\ (p_result.action = "HOLD") <=> (~ge /\ ~le)

C4_Witness ==
    /\ p_pc = "done"
    /\ Cardinality(POk) = 3
    /\ p_result.score = Num(3, 10)
    /\ p_result.action = "BUY"

\* the sum of the magnitude, coverage and agreement terms, clamped to [5,100]
RefConfidence ==
    LET s == p_result.score
        c == p_result.components
        n == Cardinality(POk)
        mag == IF FLt(Num(50, 1), FMul(FAbs(s), Num(50, 1))) THEN Num(50, 1)
               ELSE FMul(FAbs(s), Num(50, 1))
        cov == Num(20 * n, 3)
        match == Cardinality({name \in POk : FGe(c[name], Zero) = FGe(s, Zero)})
        agr == IF n = 1 THEN Num(10, 1) ELSE Num(30 * match, n)
        sum == FAdd(FAdd(mag, cov), agr)
    IN  IF FLt(sum, Num(5, 1)) THEN Num(5, 1)
        ELSE IF FGt(sum, Num(100, 1)) THEN Num(100, 1) ELSE sum

-----------------------------------------------------------------------------
(* Properties of run_screener (checked under SpecScreener)                 *)

\* the fetch of a logged item returned status ok, nothing raised, and at least
\* one scorer result has status ok
Qualifies(e) ==
    /\ e.world.fetch = "ok"
    /\ e.world.raises = "none"
    /\ \/ e.world.technical.status = "ok"
       \/ e.world.sentiment.status = "ok"
       \/ e.world.fundamental.status = "ok"

\* the items gone through that qualify, in the order of stock_dict
Qualified == SelectSeq(scr_log, Qualifies)

\* C6: the rows are exactly the items whose fetch was ok, whose pipeline
\* raised nothing and whose prediction is ok, in the order of stock_dict, each
\* with the name, ticker and scores of the item it was computed from; when
\* run_screener returns, every item of stock_dict has been gone through.
C6_OneRowPerSuccessfulEntry ==
    /\ Len(results) = Len(Qualified)
    /\ \A k \in 1..Len(results) :
          /\ results[k].Stock = Qualified[k].item.name
          /\ results[k].Ticker = Qualified[k].item.ticker
          /\ results[k].TechScore = Qualified[k].world.technical.score
          /\ results[k].SentimentScore = Qualified[k].world.sentiment.score
          /\ results[k].FundamentalScore = Qualified[k].world.fundamental.score
    /\ \A i \in 1..Len(scr_log) : scr_log[i].item = stock_dict[i]
    /\ scr_pc = "done" => Len(scr_log) = Len(stock_dict)

\* 5 items, one whose fetch raises and one with three insufficient scorers:
\* the other 3 are the rows, in input order
C6_Witness ==
    /\ scr_pc = "done"
    /\ Len(stock_dict) = 5
    /\ Cardinality({i \in 1..5 : scr_log[i].world = FetchRaises}) = 1
    /\ Cardinality({i \in 1..5 : scr_log[i].world = AllInsufficient}) = 1
    /\ scr_log[2].world = FetchRaises
    /\ scr_log[4].world = AllInsufficient
    /\ Len(results) = 3
    /\ <<results[1].Stock, results[2].Stock, results[3].Stock>>
          = <<stock_dict[1].name, stock_dict[3].name, stock_dict[5].name>>

ScreenerRank ==
    IF scr_pc = "call" THEN 0
    ELSE IF scr_pc = "loop" THEN 1 + idx
    ELSE 2 + Len(stock_dict)

\* C7: whatever fails for an item, the loop goes on with the next one: the
\* items gone through are always the first idx items of stock_dict, each once;
\* the run is never stuck before it returns, every step brings it closer to
\* returning, and when it returns every item has been gone through and the
\* rows collected are returned.
C7_FailureNeverAbortsBatch ==
    /\ [](/\ idx = Len(scr_log)
          /\ idx <= Len(stock_dict)
          /\ \A i \in 1..Len(scr_log) : scr_log[i].item = stock_dict[i]
          /\ scr_pc # "done" => ENABLED ScreenerNext
          /\ scr_pc = "done" =>
                /\ Len(scr_log) = Len(stock_dict)
                /\ Len(results) = Len(Qualified))
    /\ [][ScreenerRank' > ScreenerRank /\ ScreenerRank' <= 2 + Len(stock_dict)]_vars

\* every kind of failure is followed by an item that still gets its row
C7_Witness ==
    /\ scr_pc = "done"
    /\ Len(stock_dict) = 5
    /\ scr_log[1].world = FetchError
    /\ scr_log[2].world = ScoringRaises
    /\ scr_log[3].world = KeyMetricsRaises
    /\ scr_log[4].world = AllInsufficient
    /\ scr_log[5].world = AllOk
    /\ Len(results) = 1
    /\ results[1].Stock = stock_dict[5].name

\* C8 as stated: every row carries an action, a confidence, a composite score
\* and a value for each of the three component scores.
C8_NoPartialRow ==
    \A k \in 1..Len(results) :
        /\ results[k].Action \in {"BUY", "HOLD", "SELL"}
        /\ results[k].Confidence # None
        /\ results[k].Score # None
        /\ results[k].TechScore # None
        /\ results[k].SentimentScore # None
        /\ results[k].FundamentalScore # None

\* C8 as amended: every row carries the name, the ticker, an action in
\* {BUY, HOLD, SELL}, a confidence and a composite score; it carries the score
\* of each scorer whose status is ok, of which there is at least one, and
\* None for each scorer whose status is not ok.
C8_RowCarriesUsableScores ==
    /\ Len(results) = Len(Qualified)
    /\ \A k \in 1..Len(results) :
          LET w == Qualified[k].world
              row == results[k]
          IN  /\ row.Stock = Qualified[k].item.name
              /\ row.Ticker = Qualified[k].item.ticker
              /\ row.Action \in {"BUY", "HOLD", "SELL"}
              /\ row.Confidence # None
              /\ row.Score # None
              /\ (row.TechScore = None) <=> (w.technical.status # "ok")
              /\ (row.SentimentScore = None) <=> (w.sentiment.status # "ok")
              /\ (row.FundamentalScore = None) <=> (w.fundamental.status # "ok")
              /\ w.technical.status = "ok" => row.TechScore = w.technical.score
              /\ w.sentiment.status = "ok" => row.SentimentScore = w.sentiment.score
              /\ w.fundamental.status = "ok" => row.FundamentalScore = w.fundamental.score
              /\ {row.TechScore, row.SentimentScore, row.FundamentalScore} # {None}

\* a row without a technical score next to a complete one
C8_Witness ==
    /\ scr_pc = "done"
    /\ Len(results) = 2
    /\ results[1].TechScore = None
    /\ results[1].SentimentScore # None
    /\ results[1].Action = "SELL"
    /\ results[2].TechScore # None

-----------------------------------------------------------------------------
(* Properties of the screener branch of main() (checked under SpecUi)      *)

\* C9: a rerun that starts a screener run which yields no row shows the
\* warning "No stocks could be analyzed", whatever an earlier run had stored.
C9_EmptyRunShowsWarning ==
    (ui_last.mode = "Stock Screener" /\ ui_last.screener_btn /\ ui_last.run = <<>>)
        => ui_view = "warning"

\* the empty run follows a run that had stored rows
C9_Witness ==
    /\ ui_last.mode = "Stock Screener"
    /\ ui_last.screener_btn
    /\ ui_last.run = <<>>
    /\ ui_last.found.set
    /\ ui_last.found.rows # <<>>
    /\ ui_session = Stored(<<>>)
    /\ ui_view = "warning"

\* C29: the stored screener results change only when Run Screener is
\* pressed: a rerun without the press starts no run, leaves the stored rows
\* as they were and shows them again when there are any; a press starts a run
\* and stores its rows in place of the stored ones.
C29_StoredRowsChangeOnlyOnPress ==
    LET before == ui_last.found
    IN  /\ ui_last.mode = "other" => ui_session = before
        /\ (ui_last.mode = "Stock Screener" /\ ~ui_last.screener_btn) =>
              /\ ~ui_last.ran
              /\ ui_session = before
              /\ (before.set /\ before.rows # <<>>) =>
                    (ui_view = "results" /\ ui_last.shown = before.rows)
              /\ ~(before.set /\ before.rows # <<>>) => ui_last.shown = <<>>
        /\ (ui_last.mode = "Stock Screener" /\ ui_last.screener_btn) =>
              /\ ui_last.ran
              /\ ui_session = Stored(ui_last.run)
              /\ ui_last.shown = ui_last.run

\* a rerun without the press after a run that stored rows
C29_Witness ==
    /\ ui_last.mode = "Stock Screener"
    /\ ~ui_last.screener_btn
    /\ ui_last.found.set
    /\ Len(ui_last.found.rows) >= 2
    /\ ui_session = ui_last.found
    /\ ui_view = "results"
    /\ ui_last.shown = ui_session.rows

-----------------------------------------------------------------------------
(* Properties of the scorers (checked under SpecScorers)                   *)

\* C10: every ok result of calculate_technical_indicators, analyze_sentiment
\* and analyze_fundamentals has a score in [-1,1].
C10_ScorerScoreInRange ==
    (s_pc = "done" /\ s_result.status = "ok") => InUnit(s_result.score)

\* C11: calculate_technical_indicators returns insufficient_data, with no
\* score, exactly when the price series is absent or has fewer than 50
\* observations, and status ok with a score for every series of 50 or more.
C11_TechnicalNeedsFiftyObservations ==
    (s_pc = "done" /\ s_op = "technical") =>
        LET price_df == s_args.price_df
            short == ~price_df.present \/ Len(price_df.close) < 50
        IN  /\ short => (s_result.status = "insufficient_data" /\ s_result.score = None)
            /\ ~short => (s_result.status = "ok" /\ s_result.score # None)

\* a series of 49 observations, flat except for a drop at the end
C11_Witness ==
    /\ s_pc = "done" /\ s_op = "technical"
    /\ s_args.price_df.present
    /\ Len(s_args.price_df.close) = 49
    /\ s_args.price_df.close[1] = 3 /\ s_args.price_df.close[49] = 1
    /\ s_result.status = "insufficient_data"

\* C12: analyze_sentiment returns insufficient_data, with no score, if the
\* stock, sector and market headline sets are all empty.
C12_NoHeadlinesIsInsufficient ==
    (/\ s_pc = "done" /\ s_op = "sentiment"
     /\ \A category \in {"stock", "sector", "market"} : s_args.news_dict[category] = <<>>)
        => (s_result.status = "insufficient_data" /\ s_result.score = None)

C12_Witness ==
    /\ s_pc = "done" /\ s_op = "sentiment"
    /\ s_args.news_dict = NoNews
    /\ s_result.status = "insufficient_data"

\* the first label of labels that is in the index of a present, non-empty table
LabelOf(df, labels) ==
    IF df.present /\ ~DfEmpty(df) /\ \E i \in DOMAIN labels : labels[i] \in DOMAIN df.rows
    THEN labels[CHOOSE i \in DOMAIN labels :
                    /\ labels[i] \in DOMAIN df.rows
                    /\ \A j \in 1..(i - 1) : labels[j] \notin DOMAIN df.rows]
    ELSE "absent"

\* the signals of analyze_fundamentals that its arguments allow to compute
\* with numbers: the figures are there, are numbers and no divisor is zero
ComputableSignals ==
    LET q == s_args.quarterly_df
        b == s_args.balance_sheet_df
        info == s_args.info
        growth(labels) ==
            LET l == LabelOf(q, labels)
            IN  /\ l # "absent"
                /\ Len(q.rows[l]) >= 2
                /\ IsNum(q.rows[l][1]) /\ IsNum(q.rows[l][2])
                /\ q.rows[l][2].n # 0
        cell(labels) == b.rows[LabelOf(b, labels)][1]
        both(l1, l2) ==
            /\ LabelOf(b, l1) # "absent" /\ LabelOf(b, l2) # "absent"
            /\ IsNum(cell(l1)) /\ IsNum(cell(l2))
    IN  {name \in SignalNames :
            CASE name = "revenue_growth" -> growth(RevenueLabels)
              [] name = "profit_growth" -> growth(ProfitLabels)
              [] name = "profit_margin" -> IsNum(info.profitMargins)
              [] name = "roe" -> IsNum(info.returnOnEquity)
              [] name = "debt_to_equity" -> both(DebtLabels, EquityLabels)
              [] name = "current_ratio" ->
                    /\ both(CurrentAssetsLabels, CurrentLiabilitiesLabels)
                    /\ cell(CurrentLiabilitiesLabels).n # 0}

\* C13: analyze_fundamentals returns status ok whenever at least one of the
\* six signals is computable, so it returns insufficient_data only if none
\* is; it never returns another status, whatever table or label is missing
\* and whatever computation of one signal fails.
C13_InsufficientOnlyIfNoSignal ==
    (s_pc = "done" /\ s_op = "fundamentals") =>
        /\ s_result.status \in {"ok", "insufficient_data"}
        /\ ComputableSignals # {} => s_result.status = "ok"
        /\ s_result.status = "insufficient_data" =>
              (ComputableSignals = {} /\ s_result.score = None)
        /\ s_result.status = "ok" => ComputableSignals \subseteq DOMAIN s_result.signals

\* no quarterly table, a balance sheet without a debt row, a return on equity
\* that is text: the profit margin alone makes the result ok
C13_Witness ==
    /\ s_pc = "done" /\ s_op = "fundamentals"
    /\ ~s_args.quarterly_df.present
    /\ ~s_args.balance_sheet_df.present
    /\ s_args.info.returnOnEquity = Str
    /\ ComputableSignals = {"profit_margin"}
    /\ s_result.status = "ok"
    /\ s_result.available_signals = 1

\* the closing prices never fall over the last 14 differences of the series
NoLossInRsiWindow(close) ==
    \A i \in (Len(close) - 13)..Len(close) : close[i] >= close[i - 1]

\* C18: a price series whose average loss over the 14-period RSI window is
\* zero yields rsi_value = 100 and rsi_signal = -1; a series with a loss in
\* the window yields an rsi_value below 100.
C18_ZeroLossIsRsiHundred ==
    (s_pc = "done" /\ s_op = "technical" /\ s_result.status = "ok") =>
        LET close == s_args.price_df.close
        IN  /\ NoLossInRsiWindow(close) =>
                  (s_result.rsi_value = Num(100, 1) /\ s_result.rsi_signal = MinusOne)
            /\ ~NoLossInRsiWindow(close) => FLt(s_result.rsi_value, Num(100, 1))

\* a series that rises at its end, and none of whose last 14 steps falls
C18_Witness ==
    /\ s_pc = "done" /\ s_op = "technical"
    /\ Len(s_args.price_df.close) = 50
    /\ s_args.price_df.close[47] = 1
    /\ s_args.price_df.close[50] = 3
    /\ NoLossInRsiWindow(s_args.price_df.close)
    /\ s_result.rsi_value = Num(100, 1)
    /\ s_result.rsi_signal = MinusOne

\* the mean compound of the headlines of a set that have a title, as a pair
\* <<sum, count>>; <<0, 1>> (mean 0) for a set without such a headline
RECURSIVE CompoundSum(_, _)
CompoundSum(headlines, i) ==
    IF i = 0 THEN Zero
    ELSE IF headlines[i].title # ""
         THEN FAdd(headlines[i].compound, CompoundSum(headlines, i - 1))
         ELSE CompoundSum(headlines, i - 1)

TagMean(headlines) ==
    LET count == Cardinality({i \in DOMAIN headlines : headlines[i].title # ""})
    IN  IF count = 0 THEN Zero
        ELSE FDiv(CompoundSum(headlines, Len(headlines)), Num(count, 1))

\* C19: an ok sentiment result has the score 0.50*stock + 0.30*sector +
\* 0.20*market clamped to [-1,1], with the mean of each set and 0.0 for a set
\* without headlines: the weights are never renormalised over the other sets.
C19_SentimentFixedWeights ==
    (s_pc = "done" /\ s_op = "sentiment" /\ s_result.status = "ok") =>
        LET news == s_args.news_dict
            composite == FAdd(FAdd(FMul(Num(50, 100), TagMean(news["stock"])),
                                   FMul(Num(30, 100), TagMean(news["sector"]))),
                              FMul(Num(20, 100), TagMean(news["market"])))
        IN  /\ InUnit(composite)
            /\ s_result.score = composite
            /\ s_result.stock_sentiment = TagMean(news["stock"])
            /\ s_result.sector_sentiment = TagMean(news["sector"])
            /\ s_result.market_sentiment = TagMean(news["market"])

\* no stock and no market headline, one sector headline of compound -1: the
\* score is 0.30 * -1, not -1
C19_Witness ==
    /\ s_pc = "done" /\ s_op = "sentiment"
    /\ s_args.news_dict["stock"] = <<>>
    /\ s_args.news_dict["market"] = <<>>
    /\ Len(s_args.news_dict["sector"]) = 1
    /\ s_args.news_dict["sector"][1].compound = MinusOne
    /\ s_args.news_dict["sector"][1].title # ""
    /\ s_result.status = "ok"
    /\ s_result.score = Num(-3, 10)

\* the fixed weights of the six signals, in hundredths
FundHundredths(name) ==
    CASE name = "revenue_growth" -> 20
      [] name = "profit_margin" -> 15
      [] name = "profit_growth" -> 20
      [] name = "debt_to_equity" -> 20
      [] name = "current_ratio" -> 10
      [] name = "roe" -> 15

Clamped(v) ==
    IF ~IsNum(v) THEN v ELSE IF v.n < -v.d THEN MinusOne ELSE IF v.n > v.d THEN One ELSE v

\* C20: with all six signals present the score of analyze_fundamentals is the
\* fixed-weight sum (0.20, 0.15, 0.20, 0.20, 0.10, 0.15) clamped to [-1,1];
\* with one to five signals present it is the arithmetic mean of exactly the
\* present signals, clamped to [-1,1].
C20_FundamentalsWeighting ==
    (s_pc = "done" /\ s_op = "fundamentals" /\ s_result.status = "ok") =>
        LET signals == s_result.signals
            present == DOMAIN signals
            n == Cardinality(present)
            weighted == FSum([name \in present |->
                                 FMul(signals[name], Num(FundHundredths(name), 100))], present)
            mean == FDiv(FSum(signals, present), Num(n, 1))
        IN  /\ n \in 1..6
            /\ n = 6 => s_result.score = Clamped(weighted)
            /\ n < 6 => s_result.score = Clamped(mean)

\* all six signals, with a score that is not their mean
C20_Witness ==
    /\ s_pc = "done" /\ s_op = "fundamentals"
    /\ s_result.status = "ok"
    /\ DOMAIN s_result.signals = SignalNames
    /\ IsNum(s_result.score)
    /\ s_result.score # FDiv(FSum(s_result.signals, SignalNames), Num(6, 1))

\* C15: no scorer changes its arguments: the price series, the headline sets,
\* the statement tables and the metadata mapping are after the call what they
\* were before it.
C15_ScorersLeaveArgumentsUnchanged == [][s_args' = s_args]_vars

\* the latest-period cell of the first label of labels in the balance sheet
BalanceCell(labels) ==
    s_args.balance_sheet_df.rows[LabelOf(s_args.balance_sheet_df, labels)][1]

\* debt / equity < p / q, for equity > 0
RatioBelow(debt, equity, p, q) == debt.n * equity.d * q < p * equity.n * debt.d

\* the signals map of a result of analyze_fundamentals
SignalsOf(result) == IF result.status = "ok" THEN result.signals ELSE [name \in {} |-> None]

\* C21: when a total-debt cell and a stockholders'-equity cell are found and
\* equity <= 0, the debt-to-equity signal is present and is -1.0 whatever
\* the debt; for equity > 0 it is 1.0 for a ratio < 0.5, 0.5 for a ratio
\* < 1.0, -0.3 for a ratio < 2.0 and -1.0 otherwise.
C21_DebtToEquityBands ==
    (/\ s_pc = "done" /\ s_op = "fundamentals"
     /\ LabelOf(s_args.balance_sheet_df, DebtLabels) # "absent"
     /\ LabelOf(s_args.balance_sheet_df, EquityLabels) # "absent"
     /\ IsNum(BalanceCell(EquityLabels))) =>
        LET debt == BalanceCell(DebtLabels)
            equity == BalanceCell(EquityLabels)
            expected ==
                IF equity.n <= 0 THEN MinusOne
                ELSE IF ~IsNum(debt) THEN MinusOne
                ELSE IF RatioBelow(debt, equity, 1, 2) THEN One
                ELSE IF RatioBelow(debt, equity, 1, 1) THEN Num(1, 2)
                ELSE IF RatioBelow(debt, equity, 2, 1) THEN Num(-3, 10)
                ELSE MinusOne
        IN  /\ s_result.status = "ok"
            /\ "debt_to_equity" \in DOMAIN s_result.signals
            /\ s_result.signals["debt_to_equity"] = expected

\* negative equity with the largest debt
C21_Witness ==
    /\ s_pc = "done" /\ s_op = "fundamentals"
    /\ LabelOf(s_args.balance_sheet_df, DebtLabels) # "absent"
    /\ LabelOf(s_args.balance_sheet_df, EquityLabels) # "absent"
    /\ BalanceCell(EquityLabels) = MinusOne
    /\ BalanceCell(DebtLabels) = Num(MaxCell, 1)
    /\ s_result.status = "ok"
    /\ s_result.signals["debt_to_equity"] = MinusOne

\* a table without the rows of labels
WithoutRows(df, labels) ==
    [df EXCEPT !.rows = [l \in DOMAIN df.rows \ {labels[i] : i \in DOMAIN labels} |-> df.rows[l]]]

\* the signals of a result other than name
OtherSignals(result, name) ==
    [n \in DOMAIN SignalsOf(result) \ {name} |-> SignalsOf(result)[n]]

\* the previous-period cell of the first label of labels is 0
ZeroPrevious(labels) ==
    LET q == s_args.quarterly_df
        l == LabelOf(q, labels)
    IN  l # "absent" /\ Len(q.rows[l]) >= 2 /\ q.rows[l][2] = Zero

\* C22: a signal whose ratio is undefined is skipped, the scorer does not
\* fail and the other signals are what they are without the rows of the
\* skipped one: a zero previous-period revenue skips revenue growth, a zero
\* previous-period net income skips profit growth, zero current liabilities
\* skip the current ratio, and a label absent under every synonym skips the
\* signal that needs it; the first synonym found is the row used.
C22_UndefinedRatioSkipsSignal ==
    (s_pc = "done" /\ s_op = "fundamentals") =>
        LET q == s_args.quarterly_df
            b == s_args.balance_sheet_df
            info == s_args.info
            present == DOMAIN SignalsOf(s_result)
            noRow(df, labels) == LabelOf(df, labels) = "absent"
            zeroLiabilities ==
                /\ ~noRow(b, CurrentAssetsLabels) /\ ~noRow(b, CurrentLiabilitiesLabels)
                /\ BalanceCell(CurrentLiabilitiesLabels) = Zero
            sameOthers(name, quarterly_df, balance_sheet_df) ==
                OtherSignals(s_result, name)
                    = OtherSignals(AnalyzeFundamentals(quarterly_df, info, balance_sheet_df), name)
        IN  /\ s_result.status \in {"ok", "insufficient_data"}
            /\ (ZeroPrevious(RevenueLabels) \/ noRow(q, RevenueLabels)) =>
                  /\ "revenue_growth" \notin present
                  /\ sameOthers("revenue_growth", WithoutRows(q, RevenueLabels), b)
            /\ (ZeroPrevious(ProfitLabels) \/ noRow(q, ProfitLabels)) =>
                  /\ "profit_growth" \notin present
                  /\ sameOthers("profit_growth", WithoutRows(q, ProfitLabels), b)
            /\ (zeroLiabilities \/ noRow(b, CurrentAssetsLabels)
                    \/ noRow(b, CurrentLiabilitiesLabels)) =>
                  /\ "current_ratio" \notin present
                  /\ sameOthers("current_ratio", q,
                                WithoutRows(b, CurrentLiabilitiesLabels))
            /\ (noRow(b, DebtLabels) \/ noRow(b, EquityLabels)) =>
                  "debt_to_equity" \notin present
            /\ \A l \in DOMAIN q.rows :
                  (/\ l = LabelOf(q, RevenueLabels) /\ Len(q.rows[l]) >= 2
                   /\ IsNum(q.rows[l][1]) /\ IsNum(q.rows[l][2]) /\ q.rows[l][2].n # 0) =>
                      /\ "revenue_growth" \in present
                      /\ s_result.signals["revenue_growth"] =
                            Clamped(FDiv(Num(5 * (q.rows[l][1].n - q.rows[l][2].n), 1),
                                         Num(Abs(q.rows[l][2].n), 1)))

\* revenue under two synonyms, the first with a zero previous period and the
\* second not: revenue growth is skipped, profit growth is computed
C22_Witness ==
    /\ s_pc = "done" /\ s_op = "fundamentals"
    /\ DOMAIN s_args.quarterly_df.rows = {"TotalRevenue", "Revenue", "Net Income"}
    /\ s_args.quarterly_df.rows["TotalRevenue"] = <<Num(QBase, 1), Zero>>
    /\ s_args.quarterly_df.rows["Revenue"] = <<Zero, Num(QBase, 1)>>
    /\ s_result.status = "ok"
    /\ "revenue_growth" \notin DOMAIN s_result.signals
    /\ "profit_growth" \in DOMAIN s_result.signals

\* C28: where analyze_fundamentals computes the composite, available_signals
\* equals the number of entries of the signals map: it is 6 exactly when all
\* six signals are in the map, and the mean of the other branch is over at
\* least one value.
C28_CounterIsSizeOfSignalsMap ==
    (s_pc = "done" /\ s_op = "fundamentals" /\ s_result.status = "ok") =>
        /\ s_result.available_signals = Cardinality(DOMAIN s_result.signals)
        /\ (s_result.available_signals = 6) <=> (DOMAIN s_result.signals = SignalNames)
        /\ Cardinality(DOMAIN s_result.signals) >= 1

\* the return on equity alone, below zero
C28_Witness ==
    /\ s_pc = "done" /\ s_op = "fundamentals"
    /\ s_result.status = "ok"
    /\ DOMAIN s_result.signals = {"roe"}
    /\ s_result.available_signals = 1
    /\ s_result.signals["roe"] = Num(-3, 10)

\* the number of headlines of the three sets with a non-empty title
NonEmptyTitles(news_dict) ==
    LET count(headlines) == Cardinality({i \in 1..Len(headlines) : headlines[i].title # ""})
    IN  count(news_dict["stock"]) + count(news_dict["sector"]) + count(news_dict["market"])

\* C30: analyze_sentiment returns insufficient_data exactly when no headline
\* of the three sets has a non-empty title, also when the sets are not empty;
\* otherwise it returns ok with headline_count the number of non-empty titles.
C30_InsufficientIffNoTitle ==
    (s_pc = "done" /\ s_op = "sentiment") =>
        LET titles == NonEmptyTitles(s_args.news_dict)
        IN  /\ (s_result.status = "insufficient_data") <=> (titles = 0)
            /\ titles > 0 => (s_result.status = "ok" /\ s_result.headline_count = titles)

\* two sets that hold headlines, none with a title
C30_Witness ==
    /\ s_pc = "done" /\ s_op = "sentiment"
    /\ Len(s_args.news_dict["stock"]) = 1
    /\ s_args.news_dict["sector"] = <<>>
    /\ Len(s_args.news_dict["market"]) = MaxHeadlines
    /\ NonEmptyTitles(s_args.news_dict) = 0
    /\ s_result.status = "insufficient_data"

-----------------------------------------------------------------------------
(* Properties of fetch_news_headlines with analyze_sentiment (SpecNews)    *)

\* C14: an ok sentiment result for which the retrieval of a category failed
\* differs from the result for the same feeds with that category retrieved
\* and found without headlines: the failure is not taken as a 0.0.
C14_FailedFeedIsNotNeutral ==
    (n_pc = "done" /\ n_result.status = "ok") =>
        \A category \in DOMAIN n_feeds :
            ~n_feeds[category].ok =>
                n_result # AnalyzeSentiment(
                               FetchNewsHeadlines([n_feeds EXCEPT ![category] = Feed(<<>>)]))

-----------------------------------------------------------------------------
(* Properties of generate_prediction called twice (SpecPred)               *)

\* C16: a second call of generate_prediction with the same three arguments
\* returns the same status, message, action, score, confidence, components
\* and weights as the first, whatever an earlier call left behind: both are
\* what the arguments alone give.
C16_SameArgumentsSameResult ==
    /\ p_pc = "again" => p_again = p_result
    /\ p_pc \in {"done", "again"} =>
          p_result = GeneratePrediction(p_technical, p_sentiment, p_fundamental)
    /\ p_pc \in {"done", "again"} => p_left = DictsOf(p_result)

\* two calls with a sentiment score alone
C16_Witness ==
    /\ p_pc = "again"
    /\ p_technical.status # "ok" /\ p_fundamental.status # "ok"
    /\ p_sentiment = OkResult(Num(-2, 10))
    /\ p_again = p_result
    /\ p_result.status = "ok"
    /\ DOMAIN p_result.weights = {"sentiment"}
    /\ p_result.weights["sentiment"] = One

\* C27: every ok result of generate_prediction has a confidence of at least
\* 16.6, and of at least 28.3 with two or more components, where at least one
\* component has the direction of the final score.
C27_ConfidenceLowerBounds ==
    (p_pc = "done" /\ p_result.status = "ok") =>
        LET c == p_result.components
            n == Cardinality(DOMAIN c)
            agreeing == {name \in DOMAIN c : FGe(c[name], Zero) = FGe(p_result.score, Zero)}
        IN  /\ FGe(p_result.confidence, Num(166, 10))
            /\ n >= 2 => (agreeing # {} /\ FGe(p_result.confidence, Num(283, 10)))

-----------------------------------------------------------------------------
(* Properties of the key metrics in run_screener (SpecKey)                 *)

\* C17: two runs over the same security that differ only in the key-metrics
\* fields of info yield a row in one run exactly when in the other, with the
\* same action, score and confidence.
C17_KeyMetricsDoNotAffectRows ==
    k_pc = "done" =>
        /\ Len(k_rows[1]) = Len(k_rows[2])
        /\ \A i \in 1..Len(k_rows[1]) :
              i <= Len(k_rows[2]) =>
                  /\ k_rows[1][i].Action = k_rows[2][i].Action
                  /\ k_rows[1][i].Score = k_rows[2][i].Score
                  /\ k_rows[1][i].Confidence = k_rows[2][i].Confidence

-----------------------------------------------------------------------------
(* Properties of compute_key_metrics (checked under SpecMetrics)           *)

\* the row of a table under the first of labels found, <<>> when none is
CellsOf(df, labels) ==
    IF LabelOf(df, labels) = "absent" THEN <<>> ELSE df.rows[LabelOf(df, labels)]

\* every cell of the three statements is a number or NaN
AllCellsFloat ==
    \A df \in {m_args.annual_income, m_args.annual_balance, m_args.cashflow} :
        \A l \in DOMAIN df.rows : \A i \in 1..Len(df.rows[l]) : df.rows[l][i] # Str

\* C23: a Piotroski score that is reported is an integer in 0..9, and
\* piotroski_details then holds nine (label, result) entries, one per test
\* in the fixed order, of which as many are true as the score says.
C23_PiotroskiScoreCountsPasses ==
    (m_pc = "done" /\ m_result.piotroski_score # None) =>
        LET score == m_result.piotroski_score
            details == m_result.piotroski_details
        IN  /\ IsNum(score) /\ score.d = 1 /\ score.n \in 0..9
            /\ Len(details) = 9
            /\ <<details[1][1], details[2][1], details[3][1]>> =
                  <<"Net Income > 0", "ROA > 0", "Operating Cash Flow > 0">>
            /\ <<details[4][1], details[5][1], details[6][1]>> =
                  <<"Cash Flow > Net Income", "Long-term Debt Decreased",
                    "Current Ratio Increased">>
            /\ <<details[7][1], details[8][1], details[9][1]>> =
                  <<"No New Shares Issued", "Gross Margin Increased",
                    "Asset Turnover Increased">>
            /\ \A t \in 1..9 : details[t][2] \in BOOLEAN
            /\ Cardinality({t \in 1..9 : details[t][2]}) = score.n

\* all nine tests passed
C23_Witness ==
    /\ m_pc = "done"
    /\ m_result.piotroski_score = Num(9, 1)
    /\ \A t \in 1..9 : m_result.piotroski_details[t][2]

\* the fixture of C24: two annual periods, the net-income, total-assets and
\* operating-cash-flow rows and no other, net income, return on assets and
\* operating cash flow positive
ProfitableFixture ==
    LET ni == CellsOf(m_args.annual_income, ProfitLabels)
        ta == CellsOf(m_args.annual_balance, TotalAssetsLabels)
        cfo == CellsOf(m_args.cashflow, CfoLabels)
    IN  /\ Cardinality(DOMAIN m_args.annual_income.rows) = 1
        /\ Cardinality(DOMAIN m_args.annual_balance.rows) = 1
        /\ Cardinality(DOMAIN m_args.cashflow.rows) = 1
        /\ Len(ni) = 2 /\ Len(ta) = 2 /\ Len(cfo) = 2
        /\ IsNum(ni[1]) /\ ni[1].n > 0
        /\ IsNum(ta[1]) /\ ta[1].n > 0
        /\ IsNum(cfo[1]) /\ cfo[1].n > 0

\* C24 as stated: on that fixture the Piotroski score is exactly 5.
C24_ProfitableFixtureScoresFive ==
    (m_pc = "done" /\ ProfitableFixture) => m_result.piotroski_score = Num(5, 1)

\* C24 as amended: on that fixture tests 1, 2 and 3 pass, tests 5 and 7 pass
\* by default, tests 6, 8 and 9 fail, and test 4 passes exactly when the
\* operating cash flow exceeds net income: the score is 6 then, 5 otherwise.
C24_ProfitableFixtureScoresFiveOrSix ==
    (m_pc = "done" /\ ProfitableFixture) =>
        LET ni == CellsOf(m_args.annual_income, ProfitLabels)[1]
            cfo == CellsOf(m_args.cashflow, CfoLabels)[1]
            more == cfo.n * ni.d > ni.n * cfo.d
            details == m_result.piotroski_details
        IN  /\ m_result.piotroski_score = Num(IF more THEN 6 ELSE 5, 1)
            /\ Len(details) = 9
            /\ \A t \in {1, 2, 3, 5, 7} : details[t][2]
            /\ \A t \in {6, 8, 9} : ~details[t][2]
            /\ details[4][2] = more

\* the fixture with an operating cash flow above net income
C24_Witness ==
    /\ m_pc = "done"
    /\ ProfitableFixture
    /\ CellsOf(m_args.cashflow, CfoLabels)[1] = Num(3, 1)
    /\ CellsOf(m_args.annual_income, ProfitLabels)[1] = Num(2, 1)
    /\ m_result.piotroski_score = Num(6, 1)

\* the rows each Piotroski test reads, as <<table, labels>>
TestRows(t) ==
    LET ni == <<"annual_income", ProfitLabels>>
        ta == <<"annual_balance", TotalAssetsLabels>>
        cfo == <<"cashflow", CfoLabels>>
        rev == <<"annual_income", RevenueLabels>>
    IN  CASE t = 1 -> {ni}
          [] t = 2 -> {ni, ta}
          [] t = 3 -> {cfo}
          [] t = 4 -> {cfo, ni}
          [] t = 5 -> {<<"annual_balance", LongTermDebtLabels>>}
          [] t = 6 -> {<<"annual_balance", CurrentAssetsLabels>>,
                       <<"annual_balance", CurrentLiabilitiesLabels>>}
          [] t = 7 -> {<<"annual_balance", SharesLabels>>}
          [] t = 8 -> {<<"annual_income", GrossProfitLabels>>, rev}
          [] t = 9 -> {rev, ta}

\* a row that test t reads is not in its table
MissesRow(t) == \E r \in TestRows(t) : CellsOf(m_args[r[1]], r[2]) = <<>>

\* the arguments without the rows that only other tests than t read
OnlyRowsOf(t) ==
    LET kept(table) ==
            {l \in DOMAIN m_args[table].rows :
                \E r \in TestRows(t) \cup TestRows(2) :
                    r[1] = table /\ l = LabelOf(m_args[table], r[2])}
        cut(table) ==
            [m_args[table] EXCEPT !.rows = [l \in kept(table) |-> m_args[table].rows[l]]]
    IN  [m_args EXCEPT !.annual_income = cut("annual_income"),
                       !.annual_balance = cut("annual_balance"),
                       !.cashflow = cut("cashflow")]

\* the net-income and total-assets rows are found with two periods or more in
\* three tables that are there
TwoYearsOfBasics ==
    /\ m_args.annual_income.present /\ m_args.annual_balance.present /\ m_args.cashflow.present
    /\ Len(CellsOf(m_args.annual_income, ProfitLabels)) >= 2
    /\ Len(CellsOf(m_args.annual_balance, TotalAssetsLabels)) >= 2

\* C25 as stated: whatever rows or tables are missing, a Piotroski score is
\* reported, a test with a missing row being false, or passed for the
\* long-term-debt and share-count tests.
C25_ScoreWhateverIsMissing ==
    (m_pc = "done" /\ ~m_result.raises /\ AllCellsFloat) =>
        /\ m_result.piotroski_score # None
        /\ \A t \in 1..9 : MissesRow(t) => m_result.piotroski_details[t][2] = (t \in {5, 7})

\* C25 as amended: with the three tables there and net-income and
\* total-assets rows of two periods or more, a score is reported, a test with
\* a missing row is false (passed for the long-term-debt and share-count
\* tests) and every test is what it is without the rows of the other tests;
\* without those tables or rows no score and no details are reported, and the
\* call still returns its other metrics.
C25_MissingRowFailsItsTestOnly ==
    (m_pc = "done" /\ ~m_result.raises /\ AllCellsFloat) =>
        /\ TwoYearsOfBasics =>
              /\ m_result.piotroski_score # None
              /\ \A t \in 1..9 :
                    /\ MissesRow(t) => m_result.piotroski_details[t][2] = (t \in {5, 7})
                    /\ m_result.piotroski_details[t] =
                          LET alone == OnlyRowsOf(t)
                          IN  ComputeKeyMetrics(alone.info, alone.annual_income,
                                                alone.annual_balance,
                                                alone.cashflow).piotroski_details[t]
        /\ ~TwoYearsOfBasics =>
              /\ m_result.piotroski_score = None
              /\ m_result.piotroski_details = <<>>

\* no cash-flow row, no long-term-debt row and no revenue row, the rest there
C25_Witness ==
    /\ m_pc = "done"
    /\ TwoYearsOfBasics
    /\ AllCellsFloat
    /\ MissesRow(3) /\ MissesRow(5) /\ MissesRow(8)
    /\ ~MissesRow(6) /\ ~MissesRow(7)
    /\ m_result.piotroski_score # None
    /\ ~m_result.piotroski_details[3][2]
    /\ m_result.piotroski_details[5][2]
    /\ m_result.piotroski_details[6][2]

\* C26: return on equity is net income / stockholders' equity per annual
\* period, for up to 5 periods; roe_latest is that of the most recent
\* period, roe_3yr when reported the mean of the three most recent periods,
\* roe_5yr when reported the mean of the five most recent; ROCE, EBIT /
\* (total assets - current liabilities), likewise.
C26_ReturnsAveragedOverThreeAndFive ==
    (m_pc = "done" /\ ~m_result.raises /\ AllCellsFloat) =>
        LET ni == CellsOf(m_args.annual_income, ProfitLabels)
            eq == CellsOf(m_args.annual_balance, EquityLabels)
            ebit == CellsOf(m_args.annual_income, EbitLabels)
            ta == CellsOf(m_args.annual_balance, TotalAssetsLabels)
            cl == CellsOf(m_args.annual_balance, CurrentLiabilitiesLabels)
            roe(i) == FDiv(ni[i], eq[i])
            roce(i) == FDiv(ebit[i], FSub(ta[i], cl[i]))
            mean(f, k) == FDiv(FSum(f, 1..k), Num(k, 1))
        IN  /\ m_result.roe_latest # None => m_result.roe_latest = roe(1)
            /\ m_result.roe_3yr # None =>
                  /\ PyMinInt(Len(ni), Len(eq)) >= 3
                  /\ m_result.roe_3yr = mean([i \in 1..3 |-> roe(i)], 3)
            /\ m_result.roe_5yr # None =>
                  /\ PyMinInt(Len(ni), Len(eq)) >= 5
                  /\ m_result.roe_5yr = mean([i \in 1..5 |-> roe(i)], 5)
            /\ m_result.roce_latest # None => m_result.roce_latest = roce(1)
            /\ m_result.roce_3yr # None =>
                  /\ PyMinInt(Len(ebit), PyMinInt(Len(ta), Len(cl))) >= 3
                  /\ m_result.roce_3yr = mean([i \in 1..3 |-> roce(i)], 3)
            /\ m_result.roce_5yr # None =>
                  /\ PyMinInt(Len(ebit), PyMinInt(Len(ta), Len(cl))) >= 5
                  /\ m_result.roce_5yr = mean([i \in 1..5 |-> roce(i)], 5)

-----------------------------------------------------------------------------
(* Specifications                                                          *)

\* two calls of generate_prediction on every combination of scorer results
InitPred == PredInit /\ ScorersOff /\ ScreenerOff /\ UiOff /\ NewsOff /\ KeyOff /\ MetricsOff
SpecPred == InitPred /\ [][PredNext]_vars

\* one call of one scorer on every input of its input set
InitScorers == ScorersInit /\ PredOff /\ ScreenerOff /\ UiOff /\ NewsOff /\ KeyOff /\ MetricsOff
SpecScorers == InitScorers /\ [][ScorersNext]_vars

\* one run of run_screener over every stock_dict, whatever the fetches return;
\* the loop is sequential code, so the run always takes its next step
InitScreener == ScreenerInit /\ PredOff /\ ScorersOff /\ UiOff /\ NewsOff /\ KeyOff /\ MetricsOff
SpecScreener ==
    /\ InitScreener
    /\ [][ScreenerNext]_vars
    /\ WF_vars(ScreenerNext)

\* any sequence of reruns of main() within one session
InitUi == UiInit /\ PredOff /\ ScorersOff /\ ScreenerOff /\ NewsOff /\ KeyOff /\ MetricsOff
SpecUi == InitUi /\ [][UiNext]_vars

\* the headlines of one security fetched, then analysed, whatever each feed does
InitNews == NewsInit /\ PredOff /\ ScorersOff /\ ScreenerOff /\ UiOff /\ KeyOff /\ MetricsOff
SpecNews == InitNews /\ [][NewsNext]_vars

\* one security screened twice, with two key-metrics inputs
InitKey == KeyInit /\ PredOff /\ ScorersOff /\ ScreenerOff /\ UiOff /\ NewsOff /\ MetricsOff
SpecKey == InitKey /\ [][KeyNext]_vars

\* one call of compute_key_metrics on annual statements of up to MaxYears
\* periods
InitMetrics ==
    MetricsInit /\ PredOff /\ ScorersOff /\ ScreenerOff /\ UiOff /\ NewsOff /\ KeyOff
SpecMetrics == InitMetrics /\ [][MetricsNext]_vars

====
